---- MODULE Spec2Model ----
(***************************************************************************)
(* Output capture and streaming bridge of python/helpers/aider.py:         *)
(* OutputCapture (the sink), the sys.stdout.write guard                    *)
(* (temporary_stdout_patch), the patched I/O hooks and                     *)
(* StreamingAiderWrapper (the bridge).                                     *)
(*                                                                         *)
(* The specifications share the sink's state:                              *)
(*   SpecSink  client threads call OutputCapture's methods concurrently;   *)
(*             write is modelled statement by statement, with the RLock.   *)
(*   Spec      one bridge runs invocations one after another; every        *)
(*             engine emission is one step that runs the hook, the sink    *)
(*             write and the whole dispatch it causes.                     *)
(*   SpecE2E   the same bridge with an engine that writes "a", "b", "c",   *)
(*             from a sink as the construction left it.                    *)
(*   SpecReuse the same bridge, no response callback added but by passing  *)
(*             it to a streaming entry point.                              *)
(*   SpecIO    one client thread patches and restores an I/O object, calls *)
(*             its hooks, sys.stdout.write and the sink's methods, and     *)
(*             enters and leaves the stdout guard, one call per step.      *)
(*   SpecPatch an I/O object with any subset of the hooks is patched and   *)
(*             restored.                                                   *)
(*   SpecGuard two bridges run by two threads, the guard and the patched   *)
(*             sys.stdout.write statement by statement, with both locks.   *)
(*   SpecSubs  one client registers subscribers that change the subscriber *)
(*             list during their notification, and writes.                 *)
(*   FairGuard SpecGuard with every thread that can step scheduled.        *)
(*   SpecTasks one client calls the methods of a TaskList                  *)
(*             (python/helpers/tasklist.py), one call per step.            *)
(***************************************************************************)
EXTENDS Naturals, Sequences, FiniteSets, TLC

VARIABLES
    buffer,         \* OutputCapture.buffer: the chunks written, in order
    messages,       \* OutputCapture.messages
    callbacks,      \* OutputCapture.callbacks (a list, duplicates allowed)
    lock,           \* OutputCapture.lock (RLock): owner and hold count
    clock,          \* time.time() as a logical clock: events created so far
    notified,       \* history: every callback invocation, in global order
    stack,          \* SpecSink: per thread, the frames of write calls in progress
    issued,         \* SpecSink: per thread, the texts it passed to write
    nwrites,        \* SpecSink: top-level write calls made
    nops,           \* SpecSink: calls made to the sink's other methods
    sys_stdout_write,           \* sys.stdout.write: "original", or the bridge whose
                                \* patched_stdout_write is installed
    stdout_patch_mode_active,   \* _stdout_patch_mode_active
    stdout_patching_active,     \* _stdout_patching_active
    suppress_terminal_output,   \* per bridge: the flag its hooks were patched with
    response_callbacks,         \* per bridge: StreamingAiderWrapper.response_callbacks
    original_stdout_write,      \* per bridge: what temporary_stdout_patch saved
    cpc,            \* per bridge: where the caller of the bridge is
    wpc,            \* per bridge: where run_with_capture is
    mode,           \* per bridge: the entry point of the current invocation
    ninv,           \* per bridge: invocations started
    emitted,        \* history: the fragments the engine emitted in the current
                    \* invocation, and the path each took
    result,         \* per bridge: what run_with_capture returned
    returned,       \* per bridge: what the caller got from the entry point
    io_hooks,       \* per bridge: the hook attributes of its I/O object
    io_originals,   \* per bridge: the I/O object's _original_methods attribute
    outcome,        \* SpecIO: the last call the client made and how it ended
    ncalls,         \* SpecIO: calls made
    patching_lock,  \* _stdout_patching_lock (RLock): owner and hold count
    dropped,        \* history, per bridge: whether the clear() of the current
                    \* invocation found anything in the sink
    tasks,          \* TaskList.tasks: the tasks in list order
    task_file,      \* the tasks as _save() last wrote them to the list's file
    task_call       \* SpecTasks: the last TaskList call and how it ended

sinkVars == <<buffer, messages, callbacks, lock, clock, notified>>
threadVars == <<stack, issued, nwrites, nops>>
stdoutVars == <<sys_stdout_write, stdout_patch_mode_active, stdout_patching_active>>
bridgeVars == <<suppress_terminal_output, response_callbacks, original_stdout_write,
                cpc, wpc, mode, ninv, emitted, result, returned>>
ioVars == <<io_hooks, io_originals, outcome, ncalls>>
taskVars == <<tasks, task_file, task_call>>
vars == <<sinkVars, threadVars, stdoutVars, bridgeVars, ioVars, patching_lock, dropped,
         taskVars>>

(***************************************************************************)
(* Bounds of the model.                                                    *)
(***************************************************************************)
MaxWrites == 2      \* top-level write calls of the client threads, in total
MaxDepth == 2       \* nesting of write calls a re-entrant subscriber causes
MaxCallbacks == 2   \* length of a callback list
MaxOps == 2         \* calls of add_callback, remove_callback, clear_callbacks, clear

Threads == {"t1", "t2"}
Sinks == {"b1"}
Bridges == Sinks
Callbacks == {"c1", "c2"}          \* the subscribers of SpecSink
BridgeCallbacks == {"c2", "c3"}    \* the subscribers of Spec

(***************************************************************************)
(* Text.  str.strip() is falsy exactly for whitespace-only (or empty)      *)
(* text.                                                                   *)
(***************************************************************************)
Blanks == {"", " ", "\n"}
StripAlwaysTrue(text) == TRUE
Strip(text) == text \notin Blanks

RECURSIVE Cat(_)
Cat(s) == IF s = <<>> THEN "" ELSE Head(s) \o Cat(Tail(s))

\* the text a client thread writes: its own word, or whitespace only
TextsOf(t) == {IF t = "t1" THEN "a" ELSE "b", " "}

(***************************************************************************)
(* Subscribers.  What a callback does when it is called is the caller's    *)
(* code: c1 writes to the sink again (a re-entrant write), c2 raises, c3   *)
(* calls print(), which goes to sys.stdout.write, c4 calls                 *)
(* remove_callback on itself, c5 calls add_callback(c6) unless c6 is       *)
(* registered, c6 returns.                                                 *)
(***************************************************************************)
Behaviour(c) ==
    CASE c = "c1" -> "write"
      [] c = "c2" -> "raise"
      [] c = "c3" -> "print"
      [] c = "c4" -> "remove"
      [] c = "c5" -> "add"
      [] c = "c6" -> "return"
Added == "c6"
Echo(text) == "echo " \o text

(***************************************************************************)
(* OutputCapture                                                           *)
(***************************************************************************)
\* get_output(): buffer.getvalue()
GetOutput(s) == Cat(buffer[s])

\* get_messages(): a copy of the list
GetMessages(s) == messages[s]

Contents(msgs) == [i \in DOMAIN msgs |-> msgs[i].content]

\* write: message = {'type': 'output', 'content': text, 'timestamp': time.time()}
OutputEvent(text, now) == [type |-> "output", content |-> text, timestamp |-> now]

\* `with self.lock`: an RLock admits its owner again
LockAvailableNoLock(s, t) == TRUE
LockAvailable(s, t) == lock[s].count = 0 \/ lock[s].owner = t

Acquired(s, t) == [owner |-> t, count |-> lock[s].count + 1]
Released(s) == [owner |-> IF lock[s].count = 1 THEN "none" ELSE lock[s].owner,
                count |-> lock[s].count - 1]

Top(t) == stack[t][Len(stack[t])]
SetTop(t, f) == [stack EXCEPT ![t] = [stack[t] EXCEPT ![Len(stack[t])] = f]]
Frame(s, text) == [sink |-> s, pc |-> "lock", text |-> text, i |-> 1, ts |-> 0]

\* a call of the patched_stdout_write that writes to sink s
StdoutFrame(s, text) == [sink |-> s, pc |-> "s_lock", text |-> text, i |-> 1, ts |-> 0]

\* a client thread calls output_capture.write(text)
CallWrite(t, s, text) ==
    /\ stack[t] = <<>>
    /\ nwrites < MaxWrites
    /\ stack' = [stack EXCEPT ![t] = <<Frame(s, text)>>]
    /\ issued' = [issued EXCEPT ![t] = Append(@, text)]
    /\ nwrites' = nwrites + 1
    /\ UNCHANGED <<sinkVars, nops, stdoutVars, bridgeVars, ioVars>>
    /\ UNCHANGED <<patching_lock, dropped, taskVars>>

\* write: with self.lock: result = self.buffer.write(text); if text.strip():
WriteLock(t) ==
    /\ stack[t] # <<>>
    /\ Top(t).pc = "lock"
    /\ LockAvailable(Top(t).sink, t)
    /\ lock' = [lock EXCEPT ![Top(t).sink] = Acquired(Top(t).sink, t)]
    /\ buffer' = [buffer EXCEPT ![Top(t).sink] = Append(@, Top(t).text)]
    /\ stack' = SetTop(t, [Top(t) EXCEPT
                             !.pc = IF Strip(Top(t).text) THEN "msg" ELSE "unlock"])
    /\ UNCHANGED <<messages, callbacks, clock, notified, issued, nwrites, nops, stdoutVars, bridgeVars, ioVars>>
    /\ UNCHANGED <<patching_lock, dropped, taskVars>>

\* write: self.messages.append({'type': 'output', 'content': text, 'timestamp': ...})
WriteMessage(t) ==
    /\ stack[t] # <<>>
    /\ Top(t).pc = "msg"
    /\ clock' = clock + 1
    /\ messages' = [messages EXCEPT ![Top(t).sink] =
                      Append(@, OutputEvent(Top(t).text, clock + 1))]
    /\ stack' = SetTop(t, [Top(t) EXCEPT !.pc = "disp", !.ts = clock + 1])
    /\ UNCHANGED <<buffer, callbacks, lock, notified, issued, nwrites, nops, stdoutVars, bridgeVars, ioVars>>
    /\ UNCHANGED <<patching_lock, dropped, taskVars>>

\* write: one turn of `for callback in self.callbacks`, the iterator reading the
\* live list by index: callback('assistant_response', text) in its try/except
WriteDispatch(t) ==
    /\ stack[t] # <<>>
    /\ Top(t).pc = "disp"
    /\ LET f == Top(t)
           s == f.sink
       IN IF f.i > Len(callbacks[s])
          THEN /\ stack' = SetTop(t, [f EXCEPT !.pc = "unlock"])
               /\ UNCHANGED <<notified, issued>>
          ELSE LET c == callbacks[s][f.i]
                   next == [f EXCEPT !.i = f.i + 1]
               IN /\ notified' = Append(notified,
                        [cb |-> c, kind |-> "assistant_response",
                         content |-> f.text, ts |-> f.ts, thread |-> t,
                         depth |-> Len(stack[t])])
                  /\ IF Behaviour(c) = "write" /\ Len(stack[t]) < MaxDepth
                     THEN \* the callback calls output_capture.write itself
                          /\ stack' = [stack EXCEPT ![t] =
                                Append([stack[t] EXCEPT ![Len(stack[t])] = next],
                                       Frame(s, Echo(f.text)))]
                          /\ issued' = [issued EXCEPT ![t] = Append(@, Echo(f.text))]
                     ELSE IF Behaviour(c) = "print" /\ sys_stdout_write # "original"
                     THEN \* the callback prints: the installed patched_stdout_write runs
                          /\ stack' = [stack EXCEPT ![t] =
                                Append([stack[t] EXCEPT ![Len(stack[t])] = next],
                                       StdoutFrame(sys_stdout_write, Echo(f.text)))]
                          /\ UNCHANGED issued
                     ELSE \* it returns, or raises and the except clause logs it
                          /\ stack' = SetTop(t, next)
                          /\ UNCHANGED issued
    /\ UNCHANGED <<buffer, messages, callbacks, lock, clock, nwrites, nops, stdoutVars, bridgeVars, ioVars>>
    /\ UNCHANGED <<patching_lock, dropped, taskVars>>

\* write: leaving `with self.lock`; return result
WriteUnlock(t) ==
    /\ stack[t] # <<>>
    /\ Top(t).pc = "unlock"
    /\ lock' = [lock EXCEPT ![Top(t).sink] = Released(Top(t).sink)]
    /\ stack' = [stack EXCEPT ![t] = SubSeq(@, 1, Len(@) - 1)]
    /\ UNCHANGED <<buffer, messages, callbacks, clock, notified, issued, nwrites, nops, stdoutVars, bridgeVars, ioVars>>
    /\ UNCHANGED <<patching_lock, dropped, taskVars>>

\* a client thread that is in no write call can take the lock when it is free
ClientCanLock(s) ==
    /\ lock[s].count = 0
    /\ \E t \in Threads : stack[t] = <<>>
    /\ nops < MaxOps

\* add_callback
AddCallback(s, c) ==
    /\ ClientCanLock(s)
    /\ nops' = nops + 1
    /\ Len(callbacks[s]) < MaxCallbacks
    /\ callbacks' = [callbacks EXCEPT ![s] = Append(@, c)]
    /\ UNCHANGED <<buffer, messages, lock, clock, notified, stack, issued, nwrites, stdoutVars, bridgeVars, ioVars>>
    /\ UNCHANGED <<patching_lock, dropped, taskVars>>

\* list.remove(x): drops the first occurrence
RemoveFirst(list, c) ==
    IF \E i \in DOMAIN list : list[i] = c
    THEN LET k == CHOOSE i \in DOMAIN list :
                    list[i] = c /\ \A j \in 1..(i - 1) : list[j] # c
         IN SubSeq(list, 1, k - 1) \o SubSeq(list, k + 1, Len(list))
    ELSE list

\* remove_callback
RemoveCallback(s, c) ==
    /\ ClientCanLock(s)
    /\ nops' = nops + 1
    /\ callbacks' = [callbacks EXCEPT ![s] = RemoveFirst(@, c)]
    /\ UNCHANGED <<buffer, messages, lock, clock, notified, stack, issued, nwrites, stdoutVars, bridgeVars, ioVars>>
    /\ UNCHANGED <<patching_lock, dropped, taskVars>>

\* clear_callbacks
ClearCallbacks(s) ==
    /\ ClientCanLock(s)
    /\ nops' = nops + 1
    /\ callbacks' = [callbacks EXCEPT ![s] = <<>>]
    /\ UNCHANGED <<buffer, messages, lock, clock, notified, stack, issued, nwrites, stdoutVars, bridgeVars, ioVars>>
    /\ UNCHANGED <<patching_lock, dropped, taskVars>>

\* the texts of the write calls of thread t that have not reached the buffer
Pending(t) ==
    LET fs == SelectSeq(stack[t], LAMBDA f : f.pc = "lock")
    IN [i \in DOMAIN fs |-> fs[i].text]

\* clear: a new StringIO and an empty message list (issued restarts with it)
Clear(s) ==
    /\ ClientCanLock(s)
    /\ nops' = nops + 1
    /\ buffer' = [buffer EXCEPT ![s] = <<>>]
    /\ messages' = [messages EXCEPT ![s] = <<>>]
    /\ issued' = [t \in Threads |-> Pending(t)]
    /\ UNCHANGED <<callbacks, lock, clock, notified, stack, nwrites, stdoutVars, bridgeVars, ioVars>>
    /\ UNCHANGED <<patching_lock, dropped, taskVars>>


(***************************************************************************)
(* The same code run by one thread from start to end, as Spec uses it:     *)
(* W is the record of the sink and sys.stdout state, and each operator     *)
(* returns W as the call leaves it.  depth counts the write calls on the    *)
(* Python stack.  An exception a call raises is W.exc of the record it     *)
(* returns; `except Exception` clears it.                                  *)
(***************************************************************************)
MaxNest == 3        \* nesting of write calls a re-entrant subscriber causes here

\* a text that is not a str (bytes): StringIO.write raises TypeError on it
NotAString == "b'x'"
IsStr(text) == text # NotAString

\* `except Exception`: every exception raised here is an Exception
ExceptNothing(exc) == FALSE
ExceptException(exc) == exc \in {"Exception", "TypeError"}
Raising(W) == W.exc # "none"
Swallow(W) == IF Raising(W) /\ ExceptException(W.exc) THEN [W EXCEPT !.exc = "none"] ELSE W

World == [buffer |-> buffer, messages |-> messages, callbacks |-> callbacks,
          clock |-> clock, notified |-> notified,
          sys_stdout_write |-> sys_stdout_write,
          mode_active |-> stdout_patch_mode_active,
          patching_active |-> stdout_patching_active,
          exc |-> "none",       \* the exception propagating out of the call
          forwarded |-> <<>>,   \* the original handlers called, in order
          ret |-> 0]            \* what the last write call to return returned

Becomes(W) ==
    /\ buffer' = W.buffer
    /\ messages' = W.messages
    /\ callbacks' = W.callbacks
    /\ clock' = W.clock
    /\ notified' = W.notified
    /\ sys_stdout_write' = W.sys_stdout_write
    /\ stdout_patch_mode_active' = W.mode_active
    /\ stdout_patching_active' = W.patching_active

\* patched_stdout_write: except Exception: pass; finally: the flag is cleared
LeaveStdoutWriteNoFinally(W) ==
    IF Raising(W) THEN Swallow(W) ELSE [W EXCEPT !.patching_active = FALSE]
LeaveStdoutWrite(W) == [Swallow(W) EXCEPT !.patching_active = FALSE]

\* OutputCapture.clear
NotCleared(W, s) == W
ClearedWithCallbacks(W, s) ==
    [W EXCEPT !.buffer[s] = <<>>, !.messages[s] = <<>>, !.callbacks[s] = <<>>]
Cleared(W, s) == [W EXCEPT !.buffer[s] = <<>>, !.messages[s] = <<>>]

RECURSIVE Write(_, _, _, _)
RECURSIVE Dispatch(_, _, _, _, _)
RECURSIVE Invoke(_, _, _, _, _)
RECURSIVE PatchedStdoutWrite(_, _, _, _)
RECURSIVE SysStdoutWrite(_, _, _)

\* sys.stdout.write(text), whatever handler is installed
SysStdoutWrite(W, text, depth) ==
    IF W.sys_stdout_write = "original"
    THEN W
    ELSE PatchedStdoutWrite(W, W.sys_stdout_write, text, depth)

\* temporary_stdout_patch.patched_stdout_write of the guard of bridge b
PatchedStdoutWrite(W, b, text, depth) ==
    IF W.patching_active
    THEN W
    ELSE LET W1 == [W EXCEPT !.patching_active = TRUE]
             W2 == IF text # "" /\ Strip(text) THEN Write(W1, b, text, depth + 1) ELSE W1
         IN LeaveStdoutWrite(W2)

\* callback(kind, content): the call is recorded, then the callback's body runs
Invoke(W, s, c, ev, depth) ==
    LET W1 == [W EXCEPT !.notified = Append(@, [cb |-> c, kind |-> ev.kind,
                           content |-> ev.content, ts |-> ev.ts, thread |-> ev.thread,
                           depth |-> depth])]
    IN CASE Behaviour(c) = "write" /\ depth < MaxNest ->
                Write(W1, s, Echo(ev.content), depth + 1)
         [] Behaviour(c) = "print" ->
                SysStdoutWrite(W1, Echo(ev.content), depth)
         [] Behaviour(c) = "raise" ->
                [W1 EXCEPT !.exc = "Exception"]
         [] Behaviour(c) = "remove" ->
                [W1 EXCEPT !.callbacks[s] = RemoveFirst(@, c)]
         [] Behaviour(c) = "add" ->
                IF \E k \in DOMAIN W1.callbacks[s] : W1.callbacks[s][k] = Added
                THEN W1
                ELSE [W1 EXCEPT !.callbacks[s] = Append(@, Added)]
         [] OTHER -> W1

\* OutputCapture.write: `for callback in self.callbacks` from index i on
Dispatch(W, s, ev, i, depth) ==
    IF i > Len(W.callbacks[s])
    THEN W
    ELSE LET W1 == Invoke(W, s, W.callbacks[s][i], ev, depth)
             W2 == IF Raising(W1) /\ ExceptException(W1.exc)
                   THEN [W1 EXCEPT !.exc = "none"]   \* PrintStyle().error(...)
                   ELSE W1
         IN IF Raising(W2) THEN W2 ELSE Dispatch(W2, s, ev, i + 1, depth)

\* OutputCapture.write: result = self.buffer.write(text) ... return result
Write(W, s, text, depth) ==
    LET W1 == [W EXCEPT !.buffer[s] = Append(@, text)]
        W2 == IF ~IsStr(text)
              THEN [W EXCEPT !.exc = "TypeError"]
              ELSE IF Strip(text)
              THEN Dispatch([W1 EXCEPT !.clock = @ + 1,
                                       !.messages[s] = Append(@, OutputEvent(text, W.clock + 1))],
                            s,
                            [kind |-> "assistant_response", content |-> text,
                             ts |-> W.clock + 1, thread |-> "worker"],
                            1, depth)
              ELSE W1
    IN IF Raising(W2) THEN W2 ELSE [W2 EXCEPT !.ret = Len(text)]

(***************************************************************************)
(* monkey_patch_io_for_capture: the patched hooks of the engine's I/O      *)
(* object.                                                                 *)
(***************************************************************************)
Hooks == {"assistant_output", "tool_output", "tool_error", "tool_warning",
          "ai_output", "console_print"}
Paths == Hooks \cup {"stdout"}

\* the text a wrapper passes to output_capture.write
Format(hook, message) ==
    CASE hook = "tool_error" -> "ERROR: " \o message
      [] hook = "tool_warning" -> "WARNING: " \o message
      [] OTHER -> message

\* the wrappers that test `if not _stdout_patch_mode_active`
ChecksPatchMode(hook) == hook # "console_print"

\* tool_output tests `if message_text`
SkipsEmpty(hook) == hook = "tool_output"

\* a message that is an object whose __str__ raises: str(message) and the
\* f-strings of the wrappers raise on it
Unprintable == "<unprintable>"
Printable(message) == message # Unprintable

\* the engine's own handler is called with the wrapper's arguments; it prints
\* the message, which reaches sys.stdout.write (and it raises itself on a
\* message it cannot format)
OriginalHandler(W, hook, message) ==
    LET W1 == [W EXCEPT !.forwarded = Append(@, [hook |-> hook, message |-> message])]
    IN IF Printable(message)
       THEN SysStdoutWrite(W1, message, 0)
       ELSE [W1 EXCEPT !.exc = "Exception"]

\* the try block of a wrapper: the message is formatted and written to the sink
TryCapture(W, b, hook, message) ==
    IF ~Printable(message)
    THEN [W EXCEPT !.exc = "Exception"]
    ELSE IF SkipsEmpty(hook) /\ Format(hook, message) = ""
    THEN W
    ELSE Write(W, b, Format(hook, message), 1)

\* patched_<hook>(message) on the I/O object of bridge b: the capture in
\* try/except Exception: pass, then the original handler unless suppressed
PatchedHookUnprotected(W, b, hook, message) ==
    LET W1 == IF ChecksPatchMode(hook) /\ W.mode_active
              THEN W
              ELSE TryCapture(W, b, hook, message)
    IN IF ~Raising(W1) /\ ~suppress_terminal_output[b]
       THEN OriginalHandler(W1, hook, message)
       ELSE W1
PatchedHook(W, b, hook, message) ==
    LET W1 == IF ChecksPatchMode(hook) /\ W.mode_active
              THEN W
              ELSE Swallow(TryCapture(W, b, hook, message))
    IN IF ~Raising(W1) /\ ~suppress_terminal_output[b]
       THEN OriginalHandler(W1, hook, message)
       ELSE W1

(***************************************************************************)
(* temporary_stdout_patch                                                  *)
(***************************************************************************)
\* entering the with block
GuardEnter(W, b) == [W EXCEPT !.mode_active = TRUE, !.sys_stdout_write = b]

\* the finally clause, reached when the body returned and when it raised
GuardExitOnReturnOnly(W, b, raised) ==
    IF raised THEN W
    ELSE [W EXCEPT !.mode_active = FALSE, !.sys_stdout_write = original_stdout_write[b]]
GuardExit(W, b, raised) ==
    [W EXCEPT !.mode_active = FALSE, !.sys_stdout_write = original_stdout_write[b]]

(***************************************************************************)
(* StreamingAiderWrapper: one bridge, its caller and its run_with_capture. *)
(***************************************************************************)
MaxInvocations == 2   \* invocations of one bridge
MaxEmit == 2          \* fragments the engine emits in one invocation

Modes == {"capture", "callback", "async"}
NoResult == [kind |-> "none"]
Completion == [kind |-> "completion", content |-> "Command execution completed",
               ts |-> 0, thread |-> "caller"]

\* what the engine emits as its k-th fragment: a word of its own, or whitespace
Fragment(k) == "f" \o ToString(k)
EmitTexts(k) == {Fragment(k), " "}

\* how coder.run(message) ends: it returns a payload or raises
Outcomes == {[raised |-> FALSE, value |-> "R"], [raised |-> TRUE, value |-> "boom"]}

WorkerDone(b) == wpc[b] \in {"returned", "raised"}
WorkerFree(b) == wpc[b] = "idle" \/ WorkerDone(b)

RECURSIVE RemoveAll(_, _)
\* for callback in self.response_callbacks: self.output_capture.remove_callback(callback)
RemoveNone(list, cs) == list
RemoveAll(list, cs) ==
    IF cs = <<>> THEN list ELSE RemoveAll(RemoveFirst(list, Head(cs)), Tail(cs))

RECURSIVE Complete(_, _, _, _)
\* for callback in self.response_callbacks: callback('completion', ...) in try/except
CompleteSkipped(W, b, cs, i) == W
Complete(W, b, cs, i) ==
    IF i > Len(cs) THEN W
    ELSE Complete(Swallow(Invoke(W, b, cs[i], Completion, 0)), b, cs, i + 1)

\* add_response_callback
AddResponseCallback(b, c) ==
    /\ cpc[b] = "idle"
    /\ Len(response_callbacks[b]) < MaxCallbacks
    /\ response_callbacks' = [response_callbacks EXCEPT ![b] = Append(@, c)]
    /\ UNCHANGED <<sinkVars, threadVars, ioVars, stdoutVars, suppress_terminal_output,
                   original_stdout_write, cpc, wpc, mode, ninv, emitted, result, returned>>
    /\ UNCHANGED <<patching_lock, dropped, taskVars>>

\* the caller enters run_with_capture (m = "capture"), run_with_streaming_callback
\* or run_with_streaming_async with response_callback rc: the streaming entry
\* points register rc and add every response callback to the sink.  The histories
\* restart with the invocation.
Start(b, m, rc) ==
    /\ cpc[b] = "idle"
    /\ WorkerFree(b)
    /\ ninv[b] < MaxInvocations
    /\ m = "capture" => rc = "None"
    /\ rc # "None" => Len(response_callbacks[b]) < MaxCallbacks
    /\ LET rcs == IF rc # "None" THEN Append(response_callbacks[b], rc)
                  ELSE response_callbacks[b]
       IN /\ response_callbacks' = [response_callbacks EXCEPT ![b] = rcs]
          /\ callbacks' = [callbacks EXCEPT ![b] = IF m = "capture" THEN @ ELSE @ \o rcs]
    /\ cpc' = [cpc EXCEPT ![b] = "waiting"]
    /\ wpc' = [wpc EXCEPT ![b] = "called"]
    /\ mode' = [mode EXCEPT ![b] = m]
    /\ ninv' = [ninv EXCEPT ![b] = @ + 1]
    /\ notified' = <<>>
    /\ clock' = 0
    /\ emitted' = [emitted EXCEPT ![b] = <<>>]
    /\ result' = [result EXCEPT ![b] = NoResult]
    /\ returned' = [returned EXCEPT ![b] = NoResult]
    /\ dropped' = [dropped EXCEPT ![b] = FALSE]
    /\ UNCHANGED <<buffer, messages, lock, threadVars, ioVars, stdoutVars,
                   suppress_terminal_output, original_stdout_write>>
    /\ UNCHANGED <<patching_lock, taskVars>>

\* run_with_capture: self.output_capture.clear(), then the guard is entered
Begin(b) ==
    /\ wpc[b] = "called"
    /\ original_stdout_write' = [original_stdout_write EXCEPT ![b] = sys_stdout_write]
    /\ Becomes(GuardEnter(Cleared(World, b), b))
    /\ wpc' = [wpc EXCEPT ![b] = "run"]
    /\ UNCHANGED <<lock, threadVars, ioVars, suppress_terminal_output, response_callbacks,
                   cpc, mode, ninv, emitted, result, returned>>
    /\ UNCHANGED <<patching_lock, taskVars>>

BeginCapture(b) == Begin(b) /\ UNCHANGED dropped

\* the same step, the history noting whether the clear() found anything
ScriptBegin(b) == Begin(b) /\ dropped' = [dropped EXCEPT ![b] = buffer[b] # <<>>]

\* how the history names a path: the five wrappers that test the flag are "hook"
Via(path) == IF path \in {"console_print", "stdout"} THEN path ELSE "hook"

\* inside coder.run: the engine emits text through a hook of its I/O object or
\* writes it to sys.stdout
Emit(b, path, text) ==
    /\ wpc[b] = "run"
    /\ Becomes(IF path = "stdout"
               THEN SysStdoutWrite(World, text, 0)
               ELSE PatchedHook(World, b, path, text))
    /\ emitted' = [emitted EXCEPT ![b] = Append(@, [text |-> text, via |-> Via(path)])]
    /\ UNCHANGED <<lock, threadVars, ioVars, suppress_terminal_output, response_callbacks,
                   original_stdout_write, cpc, wpc, mode, ninv, result, returned>>
    /\ UNCHANGED <<patching_lock, dropped, taskVars>>

EngineEmits(b) ==
    /\ Len(emitted[b]) < MaxEmit
    /\ \E path \in Paths : \E text \in EmitTexts(Len(emitted[b]) + 1) : Emit(b, path, text)

\* run_with_capture: the dict it returns, from the try body or the except clause
RunWithCaptureReraises(W, b, out) ==
    IF out.raised
    THEN [kind |-> "exception", error |-> out.value]
    ELSE [kind |-> "dict", success |-> TRUE, result |-> out.value,
          captured_output |-> Cat(W.buffer[b]), messages |-> W.messages[b]]
RunWithCaptureResult(W, b, out) ==
    IF out.raised
    THEN [kind |-> "dict", success |-> FALSE, error |-> out.value,
          captured_output |-> Cat(W.buffer[b]), messages |-> W.messages[b]]
    ELSE [kind |-> "dict", success |-> TRUE, result |-> out.value,
          captured_output |-> Cat(W.buffer[b]), messages |-> W.messages[b]]

\* coder.run ends: the guard is left and run_with_capture returns
RunEnds(b, out) ==
    /\ wpc[b] = "run"
    /\ LET W == GuardExit(World, b, out.raised)
           r == RunWithCaptureResult(W, b, out)
       IN /\ Becomes(W)
          /\ result' = [result EXCEPT ![b] = r]
          /\ IF mode[b] = "capture"
             THEN /\ returned' = [returned EXCEPT ![b] = r]
                  /\ cpc' = [cpc EXCEPT ![b] = "idle"]
             ELSE UNCHANGED <<returned, cpc>>
    /\ wpc' = [wpc EXCEPT ![b] = IF out.raised THEN "raised" ELSE "returned"]
    /\ UNCHANGED <<lock, threadVars, ioVars, suppress_terminal_output, response_callbacks,
                   original_stdout_write, mode, ninv, emitted>>
    /\ UNCHANGED <<patching_lock, dropped, taskVars>>

RunReturns(b) == \E out \in Outcomes : ~out.raised /\ RunEnds(b, out)
RunRaises(b) == \E out \in Outcomes : out.raised /\ RunEnds(b, out)

\* the streaming entry point has the result of run_with_capture
AwaitsNothing(b) == TRUE
AwaitDone(b) == WorkerDone(b)

\* run_with_streaming_*: the loop that sends 'completion' (skipped when
\* run_with_capture raised)
SendCompletions(b) ==
    /\ cpc[b] = "waiting"
    /\ mode[b] # "capture"
    /\ AwaitDone(b)
    /\ Becomes(IF result[b].kind # "exception"
               THEN Complete(World, b, response_callbacks[b], 1)
               ELSE World)
    /\ cpc' = [cpc EXCEPT ![b] = "finally"]
    /\ UNCHANGED <<lock, threadVars, ioVars, suppress_terminal_output, response_callbacks,
                   original_stdout_write, wpc, mode, ninv, emitted, result, returned>>
    /\ UNCHANGED <<patching_lock, dropped, taskVars>>

\* run_with_streaming_*: the finally clause, then the return
Finally(b) ==
    /\ cpc[b] = "finally"
    /\ callbacks' = [callbacks EXCEPT ![b] = RemoveAll(@, response_callbacks[b])]
    /\ returned' = [returned EXCEPT ![b] = result[b]]
    /\ cpc' = [cpc EXCEPT ![b] = "idle"]
    /\ UNCHANGED <<buffer, messages, lock, clock, notified, threadVars, ioVars, stdoutVars,
                   suppress_terminal_output, response_callbacks, original_stdout_write,
                   wpc, mode, ninv, emitted, result>>
    /\ UNCHANGED <<patching_lock, dropped, taskVars>>

CancelledError == [kind |-> "exception", error |-> "CancelledError"]

\* the task awaiting run_with_streaming_async is cancelled: CancelledError is
\* raised at the await, the finally clause runs, the worker thread goes on
CancelInterrupts(b) ==
    /\ cpc[b] = "waiting"
    /\ mode[b] = "async"
    /\ callbacks' = [callbacks EXCEPT ![b] = RemoveAll(@, response_callbacks[b])]
    /\ returned' = [returned EXCEPT ![b] = CancelledError]
    /\ cpc' = [cpc EXCEPT ![b] = "idle"]
    /\ wpc' = [wpc EXCEPT ![b] = "idle"]
    /\ UNCHANGED <<buffer, messages, lock, clock, notified, threadVars, ioVars, stdoutVars,
                   suppress_terminal_output, response_callbacks, original_stdout_write,
                   mode, ninv, emitted, result>>
    /\ UNCHANGED <<patching_lock, dropped, taskVars>>
\* the finally clause leaves the callbacks in the sink
CancelKeepsCallbacks(b) ==
    /\ cpc[b] = "waiting"
    /\ mode[b] = "async"
    /\ returned' = [returned EXCEPT ![b] = CancelledError]
    /\ cpc' = [cpc EXCEPT ![b] = "idle"]
    /\ UNCHANGED <<sinkVars, threadVars, ioVars, stdoutVars,
                   suppress_terminal_output, response_callbacks, original_stdout_write,
                   wpc, mode, ninv, emitted, result>>
    /\ UNCHANGED <<patching_lock, dropped, taskVars>>
Cancel(b) ==
    /\ cpc[b] = "waiting"
    /\ mode[b] = "async"
    /\ callbacks' = [callbacks EXCEPT ![b] = RemoveAll(@, response_callbacks[b])]
    /\ returned' = [returned EXCEPT ![b] = CancelledError]
    /\ cpc' = [cpc EXCEPT ![b] = "idle"]
    /\ UNCHANGED <<buffer, messages, lock, clock, notified, threadVars, ioVars, stdoutVars,
                   suppress_terminal_output, response_callbacks, original_stdout_write,
                   wpc, mode, ninv, emitted, result>>
    /\ UNCHANGED <<patching_lock, dropped, taskVars>>

\* the engine of the end-to-end scenario: coder.run writes "a", "b", "c" to
\* sys.stdout, one after the other
Script == <<"a", "b", "c">>

ScriptEmit(b) ==
    /\ Len(emitted[b]) < Len(Script)
    /\ Emit(b, "stdout", Script[Len(emitted[b]) + 1])

(***************************************************************************)
(* The I/O object and one client thread (SpecIO): every step is one call,  *)
(* run from start to end.                                                  *)
(***************************************************************************)
MaxCalls == 4       \* calls the client makes

IoCallbacks == {"c1", "c2", "c3"}
IoTexts == {"x", " "}

\* the hooks an I/O object has before it is patched
HookSets == {Hooks, {"tool_output", "console_print"}, {}}

\* no _original_methods attribute (restored: restore_io_methods has deleted one)
NoOriginals == [set |-> FALSE, of |-> [h \in Hooks |-> "None"], restored |-> FALSE]
NoOutcome == [op |-> "none", arg |-> "", text |-> "", exc |-> "none", forwarded |-> <<>>,
              ret |-> 0, before |-> <<>>]

\* what a call could see before it ran
Snapshot(b) == [buffer |-> buffer[b], messages |-> messages[b], callbacks |-> callbacks[b],
                hooks |-> io_hooks[b], originals |-> io_originals[b],
                sys_stdout_write |-> sys_stdout_write]

Called(b, op, arg, text, W) ==
    /\ ncalls' = ncalls + 1
    /\ outcome' = [op |-> op, arg |-> arg, text |-> text, exc |-> W.exc,
                   forwarded |-> W.forwarded, ret |-> W.ret, before |-> <<Snapshot(b)>>]

\* every call starts its own notification history
Fresh == [World EXCEPT !.notified = <<>>]
Same == [World EXCEPT !.exc = "none"]

\* monkey_patch_io_for_capture(io, output_capture, flag): the hooks that are
\* present are replaced, and _original_methods records what they were
PatchedEvery(hooks) == [h \in Hooks |-> "patched"]
Patched(hooks) == [h \in Hooks |-> IF hooks[h] # "absent" THEN "patched" ELSE hooks[h]]
Originals(hooks) == [set |-> TRUE,
                     of |-> [h \in Hooks |-> IF hooks[h] # "absent" THEN hooks[h] ELSE "None"],
                     restored |-> FALSE]

IoPatch(b, flag) ==
    /\ ncalls < MaxCalls
    /\ ~io_originals[b].set
    /\ \A h \in Hooks : io_hooks[b][h] # "patched"
    /\ io_hooks' = [io_hooks EXCEPT ![b] = Patched(@)]
    /\ io_originals' = [io_originals EXCEPT ![b] = Originals(io_hooks[b])]
    /\ suppress_terminal_output' = [suppress_terminal_output EXCEPT ![b] = flag]
    /\ Called(b, "patch", "", "", Same)
    /\ UNCHANGED <<sinkVars, threadVars, stdoutVars, response_callbacks,
                   original_stdout_write, cpc, wpc, mode, ninv, emitted, result, returned>>
    /\ UNCHANGED <<patching_lock, dropped, taskVars>>

\* restore_io_methods(io): every recorded original that is not None is put back
\* (console_print on io.console), then _original_methods is deleted
RestoredByName(hooks, originals) ==
    IF ~originals.set THEN hooks
    ELSE [h \in Hooks |-> IF originals.of[h] # "None" /\ h # "console_print"
                          THEN originals.of[h] ELSE hooks[h]]
RestoredWithNone(hooks, originals) ==
    IF ~originals.set THEN hooks ELSE originals.of
Restored(hooks, originals) ==
    IF ~originals.set THEN hooks
    ELSE [h \in Hooks |-> IF originals.of[h] # "None" THEN originals.of[h] ELSE hooks[h]]

Restore(b, op) ==
    /\ ncalls < MaxCalls
    /\ io_hooks' = [io_hooks EXCEPT ![b] = Restored(@, io_originals[b])]
    /\ io_originals' = [io_originals EXCEPT ![b] =
                            [NoOriginals EXCEPT !.restored = @ \/ io_originals[b].set
                                                          \/ io_originals[b].restored]]
    /\ Called(b, op, "", "", Same)
    /\ UNCHANGED <<sinkVars, threadVars, stdoutVars, bridgeVars>>
    /\ UNCHANGED <<patching_lock, dropped, taskVars>>

IoRestore(b) == Restore(b, "restore")

\* StreamingAiderWrapper.__del__: try: restore_io_methods(self.coder.io)
BridgeDel(b) == Restore(b, "del")

\* the engine (or the client) calls io.<hook>(text): the patched wrapper or the
\* original handler, whichever the attribute is
IoCall(b, hook, text) ==
    /\ ncalls < MaxCalls
    /\ io_hooks[b][hook] # "absent"
    /\ LET W == IF io_hooks[b][hook] = "patched"
                THEN PatchedHook(Fresh, b, hook, text)
                ELSE OriginalHandler(Fresh, hook, text)
       IN Becomes(W) /\ Called(b, "hook", hook, text, W)
    /\ UNCHANGED <<lock, threadVars, bridgeVars, io_hooks, io_originals>>
    /\ UNCHANGED <<patching_lock, dropped, taskVars>>

\* sys.stdout.write(text)
IoStdout(b, text) ==
    /\ ncalls < MaxCalls
    /\ LET W == SysStdoutWrite(Fresh, text, 0)
       IN Becomes(W) /\ Called(b, "stdout", "", text, W)
    /\ UNCHANGED <<lock, threadVars, bridgeVars, io_hooks, io_originals>>
    /\ UNCHANGED <<patching_lock, dropped, taskVars>>

\* with temporary_stdout_patch(output_capture): entered
IoGuardEnter(b) ==
    /\ ncalls < MaxCalls
    /\ sys_stdout_write = "original"
    /\ original_stdout_write' = [original_stdout_write EXCEPT ![b] = sys_stdout_write]
    /\ Becomes(GuardEnter(Same, b))
    /\ Called(b, "enter", "", "", Same)
    /\ UNCHANGED <<lock, threadVars, suppress_terminal_output, response_callbacks,
                   cpc, wpc, mode, ninv, emitted, result, returned, io_hooks, io_originals>>
    /\ UNCHANGED <<patching_lock, dropped, taskVars>>

\* with temporary_stdout_patch(output_capture): left
IoGuardExit(b) ==
    /\ sys_stdout_write = b
    /\ Becomes(GuardExit(Same, b, FALSE))
    /\ UNCHANGED <<lock, threadVars, bridgeVars, ioVars>>
    /\ UNCHANGED <<patching_lock, dropped, taskVars>>

\* output_capture.add_callback(c)
IoSubscribe(b, c) ==
    /\ ncalls < MaxCalls
    /\ Len(callbacks[b]) < MaxCallbacks
    /\ callbacks' = [callbacks EXCEPT ![b] = Append(@, c)]
    /\ Called(b, "add_callback", c, "", Same)
    /\ UNCHANGED <<buffer, messages, lock, clock, notified, threadVars, stdoutVars,
                   bridgeVars, io_hooks, io_originals>>
    /\ UNCHANGED <<patching_lock, dropped, taskVars>>

\* output_capture.write(text), called by the client
IoSinkWrite(b, text) ==
    /\ ncalls < MaxCalls
    /\ LET W == Write(Fresh, b, text, 1)
       IN Becomes(W) /\ Called(b, "write", "", text, W)
    /\ UNCHANGED <<lock, threadVars, bridgeVars, io_hooks, io_originals>>
    /\ UNCHANGED <<patching_lock, dropped, taskVars>>

\* output_capture.clear()
IoSinkClear(b) ==
    /\ ncalls < MaxCalls
    /\ Becomes(Cleared(Same, b))
    /\ Called(b, "clear", "", "", Same)
    /\ UNCHANGED <<lock, threadVars, bridgeVars, io_hooks, io_originals>>
    /\ UNCHANGED <<patching_lock, dropped, taskVars>>

(***************************************************************************)
(* Two bridges, each run by a thread of its own (SpecGuard):               *)
(* run_with_capture, temporary_stdout_patch and patched_stdout_write       *)
(* statement by statement, with _stdout_patching_lock and the sinks' locks. *)
(* The sink writes are the actions of SpecSink.                            *)
(***************************************************************************)
MaxGuardEmit == 1   \* fragments the engine of one bridge emits

TwoBridges == {"b1", "b2"}
BridgeOf(t) == IF t = "t1" THEN "b1" ELSE "b2"
\* the word the engine of a bridge writes
Word(b) == IF b = "b1" THEN "a" ELSE "b"

\* `with _stdout_patching_lock`: an RLock admits its owner again
PatchingLockAvailable(t) == patching_lock.count = 0 \/ patching_lock.owner = t
PatchingLockAcquired(t) == [owner |-> t, count |-> patching_lock.count + 1]
PatchingLockReleased ==
    [owner |-> IF patching_lock.count = 1 THEN "none" ELSE patching_lock.owner,
     count |-> patching_lock.count - 1]

At(t, pc) == stack[t] # <<>> /\ Top(t).pc = pc
Pop(t) == [stack EXCEPT ![t] = SubSeq(@, 1, Len(@) - 1)]
Goto(t, pc) == SetTop(t, [Top(t) EXCEPT !.pc = pc])

\* a thread calls run_with_capture of its bridge: self.output_capture.clear()
RunClear(t) ==
    /\ stack[t] = <<>>
    /\ wpc[BridgeOf(t)] = "idle"
    /\ LockAvailable(BridgeOf(t), t)
    /\ buffer' = [buffer EXCEPT ![BridgeOf(t)] = <<>>]
    /\ messages' = [messages EXCEPT ![BridgeOf(t)] = <<>>]
    /\ stack' = [stack EXCEPT ![t] = <<[Frame(BridgeOf(t), "") EXCEPT !.pc = "g_save"]>>]
    /\ wpc' = [wpc EXCEPT ![BridgeOf(t)] = "called"]
    /\ UNCHANGED <<callbacks, lock, clock, notified, issued, nwrites, nops, stdoutVars,
                   suppress_terminal_output, response_callbacks, original_stdout_write,
                   cpc, mode, ninv, emitted, result, returned, ioVars, patching_lock, dropped, taskVars>>

\* temporary_stdout_patch: original_stdout_write = sys.stdout.write
GuardSave(t) ==
    /\ At(t, "g_save")
    /\ original_stdout_write' = [original_stdout_write EXCEPT ![Top(t).sink] = sys_stdout_write]
    /\ stack' = Goto(t, "g_flag")
    /\ UNCHANGED <<sinkVars, issued, nwrites, nops, stdoutVars,
                   suppress_terminal_output, response_callbacks,
                   cpc, wpc, mode, ninv, emitted, result, returned, ioVars, patching_lock, dropped, taskVars>>

\* temporary_stdout_patch: _stdout_patch_mode_active = True
GuardFlag(t) ==
    /\ At(t, "g_flag")
    /\ stdout_patch_mode_active' = TRUE
    /\ stack' = Goto(t, "g_install")
    /\ UNCHANGED <<sinkVars, issued, nwrites, nops, sys_stdout_write, stdout_patching_active,
                   bridgeVars, ioVars, patching_lock, dropped, taskVars>>

\* temporary_stdout_patch: sys.stdout.write = patched_stdout_write; yield:
\* coder.run(message) starts
GuardInstall(t) ==
    /\ At(t, "g_install")
    /\ sys_stdout_write' = Top(t).sink
    /\ stack' = Goto(t, "g_body")
    /\ wpc' = [wpc EXCEPT ![Top(t).sink] = "run"]
    /\ UNCHANGED <<sinkVars, issued, nwrites, nops, stdout_patch_mode_active,
                   stdout_patching_active, suppress_terminal_output, response_callbacks,
                   original_stdout_write, cpc, mode, ninv, emitted, result, returned,
                   ioVars, patching_lock, dropped, taskVars>>

\* inside coder.run: the engine calls sys.stdout.write(text); the handler that
\* is installed at that moment runs
EngineWrites(t) ==
    /\ At(t, "g_body")
    /\ Len(emitted[Top(t).sink]) < MaxGuardEmit
    /\ emitted' = [emitted EXCEPT ![Top(t).sink] =
                      Append(@, [text |-> Word(Top(t).sink), via |-> "stdout"])]
    /\ stack' = IF sys_stdout_write = "original"
                THEN stack
                ELSE [stack EXCEPT ![t] =
                        Append(@, StdoutFrame(sys_stdout_write, Word(Top(t).sink)))]
    /\ UNCHANGED <<sinkVars, issued, nwrites, nops, stdoutVars,
                   suppress_terminal_output, response_callbacks, original_stdout_write,
                   cpc, wpc, mode, ninv, result, returned, ioVars, patching_lock, dropped, taskVars>>

\* inside coder.run: the engine calls io.console.print(text); patched_console_print
\* calls output_capture.write(message) whatever the flag is (the hooks were
\* patched with suppress_terminal_output True: the original is not called)
EnginePrints(t) ==
    /\ At(t, "g_body")
    /\ Len(emitted[Top(t).sink]) < MaxGuardEmit
    /\ emitted' = [emitted EXCEPT ![Top(t).sink] =
                      Append(@, [text |-> Word(Top(t).sink), via |-> "console_print"])]
    /\ stack' = [stack EXCEPT ![t] = Append(@, Frame(Top(t).sink, Word(Top(t).sink)))]
    /\ UNCHANGED <<sinkVars, issued, nwrites, nops, stdoutVars,
                   suppress_terminal_output, response_callbacks, original_stdout_write,
                   cpc, wpc, mode, ninv, result, returned, ioVars, patching_lock, dropped, taskVars>>

\* coder.run(message) returns or raises: the with block is left
EngineEnds(t, out) ==
    /\ At(t, "g_body")
    /\ stack' = Goto(t, "g_unflag")
    /\ wpc' = [wpc EXCEPT ![Top(t).sink] = IF out.raised THEN "raising" ELSE "returning"]
    /\ UNCHANGED <<sinkVars, issued, nwrites, nops, stdoutVars,
                   suppress_terminal_output, response_callbacks, original_stdout_write,
                   cpc, mode, ninv, emitted, result, returned, ioVars, patching_lock, dropped, taskVars>>

\* temporary_stdout_patch, finally: _stdout_patch_mode_active = False
GuardUnflag(t) ==
    /\ At(t, "g_unflag")
    /\ stdout_patch_mode_active' = FALSE
    /\ stack' = Goto(t, "g_restore")
    /\ UNCHANGED <<sinkVars, issued, nwrites, nops, sys_stdout_write, stdout_patching_active,
                   bridgeVars, ioVars, patching_lock, dropped, taskVars>>

\* temporary_stdout_patch, finally: sys.stdout.write = original_stdout_write
GuardRestore(t) ==
    /\ At(t, "g_restore")
    /\ sys_stdout_write' = original_stdout_write[Top(t).sink]
    /\ stack' = Goto(t, "g_result")
    /\ UNCHANGED <<sinkVars, issued, nwrites, nops, stdout_patch_mode_active,
                   stdout_patching_active, bridgeVars, ioVars, patching_lock, dropped, taskVars>>

\* run_with_capture: get_output() and get_messages() under the sink's lock, and
\* the dict is returned
RunResult(t) ==
    /\ At(t, "g_result")
    /\ LockAvailable(Top(t).sink, t)
    /\ result' = [result EXCEPT ![Top(t).sink] =
                     RunWithCaptureResult(World, Top(t).sink,
                         CHOOSE out \in Outcomes :
                             out.raised <=> wpc[Top(t).sink] = "raising")]
    /\ wpc' = [wpc EXCEPT ![Top(t).sink] = IF @ = "raising" THEN "raised" ELSE "returned"]
    /\ stack' = Pop(t)
    /\ UNCHANGED <<sinkVars, issued, nwrites, nops, stdoutVars,
                   suppress_terminal_output, response_callbacks, original_stdout_write,
                   cpc, mode, ninv, emitted, returned, ioVars, patching_lock, dropped, taskVars>>

\* a thread that runs no bridge prints: sys.stdout.write belongs to the
\* process, so the handler that is installed at that moment runs
ProcessPrints(t) ==
    /\ stack[t] = <<>>
    /\ wpc[BridgeOf(t)] = "idle"
    /\ nwrites < MaxGuardEmit
    /\ nwrites' = nwrites + 1
    /\ stack' = IF sys_stdout_write = "original"
                THEN stack
                ELSE [stack EXCEPT ![t] = <<StdoutFrame(sys_stdout_write, "p")>>]
    /\ UNCHANGED <<sinkVars, issued, nops, stdoutVars, bridgeVars, ioVars,
                   patching_lock, dropped, taskVars>>

\* patched_stdout_write: with _stdout_patching_lock
StdoutLock(t) ==
    /\ At(t, "s_lock")
    /\ PatchingLockAvailable(t)
    /\ patching_lock' = PatchingLockAcquired(t)
    /\ stack' = Goto(t, "s_check")
    /\ UNCHANGED <<sinkVars, issued, nwrites, nops, stdoutVars, bridgeVars, ioVars, dropped, taskVars>>

\* patched_stdout_write: if _stdout_patching_active: return (the lock is
\* released); else the flag is set and, for a text that is not blank,
\* output_capture.write(text) is called
StdoutCheck(t) ==
    /\ At(t, "s_check")
    /\ IF stdout_patching_active
       THEN /\ patching_lock' = PatchingLockReleased
            /\ stack' = Pop(t)
            /\ UNCHANGED stdout_patching_active
       ELSE /\ stdout_patching_active' = TRUE
            /\ stack' = IF Top(t).text # "" /\ Strip(Top(t).text)
                        THEN [stack EXCEPT ![t] =
                                Append(Goto(t, "s_fin")[t], Frame(Top(t).sink, Top(t).text))]
                        ELSE Goto(t, "s_fin")
            /\ UNCHANGED patching_lock
    /\ UNCHANGED <<sinkVars, issued, nwrites, nops, sys_stdout_write, stdout_patch_mode_active,
                   bridgeVars, ioVars, dropped, taskVars>>

\* patched_stdout_write: finally: _stdout_patching_active = False; the lock is
\* released and len(text) returned
StdoutFinally(t) ==
    /\ At(t, "s_fin")
    /\ stdout_patching_active' = FALSE
    /\ patching_lock' = PatchingLockReleased
    /\ stack' = Pop(t)
    /\ UNCHANGED <<sinkVars, issued, nwrites, nops, sys_stdout_write, stdout_patch_mode_active,
                   bridgeVars, ioVars, dropped, taskVars>>

(***************************************************************************)
(* python/helpers/tasklist.py: TaskList.  A task is its uid, name,         *)
(* description and status (its logs are touched by none of the calls       *)
(* below); every call that changes the list ends with _save().             *)
(***************************************************************************)
MaxTasks == 2       \* length of the task list
MaxTaskCalls == 4   \* calls of the TaskList methods

Uids == {"u1", "u2"}
Names == {"n1", "n2"}
Descriptions == {"", "d"}
TaskStatus == {"pending", "in_progress", "done", "failed", "skipped"}

\* Task(name=name) with the defaults: a new uid, description "", status PENDING
Task(uid, name) == [uid |-> uid, name |-> name, description |-> "", status |-> "pending"]

\* next((task for task in self.tasks if ...), None): the position of the first
\* such task, 0 for None
get_task(ts, uid) ==
    IF \E i \in DOMAIN ts : ts[i].uid = uid
    THEN CHOOSE i \in DOMAIN ts :
            ts[i].uid = uid /\ \A j \in 1..(i - 1) : ts[j].uid # uid
    ELSE 0

get_task_in_progress(ts) ==
    IF \E i \in DOMAIN ts : ts[i].status = "in_progress"
    THEN CHOOSE i \in DOMAIN ts :
            ts[i].status = "in_progress" /\ \A j \in 1..(i - 1) : ts[j].status # "in_progress"
    ELSE 0

NoTaskCall == [op |-> "none", uid |-> "none", status |-> "none", raised |-> "none",
               before |-> <<>>, n |-> 0]

\* the call op(uid, ..., status) ended, raising `raised` ("none": it returned)
TaskCalled(op, uid, status, raised) ==
    task_call' = [op |-> op, uid |-> uid, status |-> status, raised |-> raised,
                  before |-> tasks, n |-> task_call.n + 1]

\* _save(): the file holds the list as it now is
Saved(ts) == tasks' = ts /\ task_file' = ts

NotSaved == UNCHANGED <<tasks, task_file>>

TaskCallAllowed == task_call.n < MaxTaskCalls

OtherVars == <<sinkVars, threadVars, stdoutVars, bridgeVars, ioVars, patching_lock, dropped>>

add_task(task) ==
    /\ TaskCallAllowed
    /\ Len(tasks) < MaxTasks
    /\ \A i \in DOMAIN tasks : tasks[i].uid # task.uid
    /\ Saved(Append(tasks, task))
    /\ TaskCalled("add_task", task.uid, task.status, "none")
    /\ UNCHANGED OtherVars

remove_task(uid) ==
    /\ TaskCallAllowed
    /\ LET Kept(task) == task.uid # uid
       IN Saved(SelectSeq(tasks, Kept))
    /\ TaskCalled("remove_task", uid, "none", "none")
    /\ UNCHANGED OtherVars

Updated(ts, uid, name, description, status) ==
    [ts EXCEPT ![get_task(ts, uid)] =
        [@ EXCEPT !.name = name, !.description = description, !.status = status]]

update_task(uid, name, description, status) ==
    /\ TaskCallAllowed
    /\ IF get_task(tasks, uid) # 0
       THEN Saved(Updated(tasks, uid, name, description, status))
       ELSE NotSaved
    /\ TaskCalled("update_task", uid, status, "none")
    /\ UNCHANGED OtherVars

swap_tasks(uid1, uid2) ==
    /\ TaskCallAllowed
    /\ LET task1_idx == get_task(tasks, uid1)
           task2_idx == get_task(tasks, uid2)
       IN IF task1_idx # 0 /\ task2_idx # 0
          THEN Saved([tasks EXCEPT ![task1_idx] = tasks[task2_idx],
                                   ![task2_idx] = tasks[task1_idx]])
          ELSE NotSaved
    /\ TaskCalled("swap_tasks", uid1, "none", "none")
    /\ UNCHANGED OtherVars

set_task_status(uid, status) ==
    /\ TaskCallAllowed
    /\ LET inprogress == get_task_in_progress(tasks)
           task == get_task(tasks, uid)
       IN IF status = "in_progress" /\ inprogress # 0 /\ tasks[inprogress].uid # uid
          THEN NotSaved /\ TaskCalled("set_task_status", uid, status, "ValueError")
          ELSE IF task # 0
          THEN /\ Saved([tasks EXCEPT ![task].status = status])
               /\ TaskCalled("set_task_status", uid, status, "none")
          ELSE NotSaved /\ TaskCalled("set_task_status", uid, status, "ValueError")
    /\ UNCHANGED OtherVars

(***************************************************************************)
(* The specifications.                                                     *)
(***************************************************************************)
SinkIdle ==
    /\ buffer = [s \in Sinks |-> <<>>]
    /\ messages = [s \in Sinks |-> <<>>]
    /\ callbacks = [s \in Sinks |-> <<>>]
    /\ lock = [s \in Sinks |-> [owner |-> "none", count |-> 0]]
    /\ clock = 0
    /\ notified = <<>>

ThreadsIdle ==
    /\ stack = [t \in Threads |-> <<>>]
    /\ issued = [t \in Threads |-> <<>>]
    /\ nwrites = 0
    /\ nops = 0

StdoutIdle ==
    /\ sys_stdout_write = "original"
    /\ stdout_patch_mode_active = FALSE
    /\ stdout_patching_active = FALSE
    /\ patching_lock = [owner |-> "none", count |-> 0]

\* create_streaming_aider_coder(suppress_terminal_output = flag)
BridgesCreated(flag) ==
    /\ suppress_terminal_output = [b \in Bridges |-> flag]
    /\ response_callbacks = [b \in Bridges |-> <<>>]
    /\ original_stdout_write = [b \in Bridges |-> "original"]
    /\ cpc = [b \in Bridges |-> "idle"]
    /\ wpc = [b \in Bridges |-> "idle"]
    /\ mode = [b \in Bridges |-> "capture"]
    /\ ninv = [b \in Bridges |-> 0]
    /\ emitted = [b \in Bridges |-> <<>>]
    /\ result = [b \in Bridges |-> NoResult]
    /\ returned = [b \in Bridges |-> NoResult]
    /\ dropped = [b \in Bridges |-> FALSE]

\* the I/O object of a bridge: create_streaming_aider_coder has patched it
IoIdle(hooks, originals) ==
    /\ io_hooks = [b \in Bridges |-> hooks]
    /\ io_originals = [b \in Bridges |-> originals]
    /\ outcome = NoOutcome
    /\ ncalls = 0

IoOfBridge == IoIdle([h \in Hooks |-> "patched"], Originals([h \in Hooks |-> "original"]))

\* TaskList(uid=uid): no tasks
TaskListCreated ==
    /\ tasks = <<>>
    /\ task_file = <<>>
    /\ task_call = NoTaskCall

InitSink ==
    /\ SinkIdle /\ ThreadsIdle /\ StdoutIdle /\ BridgesCreated(TRUE) /\ IoOfBridge
    /\ TaskListCreated

NextSink ==
    \/ \E t \in Threads, s \in Sinks : \E text \in TextsOf(t) : CallWrite(t, s, text)
    \/ \E t \in Threads : WriteLock(t)
    \/ \E t \in Threads : WriteMessage(t)
    \/ \E t \in Threads : WriteDispatch(t)
    \/ \E t \in Threads : WriteUnlock(t)
    \/ \E s \in Sinks, c \in Callbacks : AddCallback(s, c)
    \/ \E s \in Sinks, c \in Callbacks : RemoveCallback(s, c)
    \/ \E s \in Sinks : ClearCallbacks(s)
    \/ \E s \in Sinks : Clear(s)

SpecSink == InitSink /\ [][NextSink]_vars

Init ==
    /\ SinkIdle /\ ThreadsIdle /\ StdoutIdle /\ IoOfBridge /\ TaskListCreated
    /\ \E flag \in BOOLEAN : BridgesCreated(flag)

Next ==
    \/ \E b \in Bridges, c \in BridgeCallbacks : AddResponseCallback(b, c)
    \/ \E b \in Bridges, m \in Modes, rc \in BridgeCallbacks \cup {"None"} : Start(b, m, rc)
    \/ \E b \in Bridges : BeginCapture(b)
    \/ \E b \in Bridges : EngineEmits(b)
    \/ \E b \in Bridges : RunReturns(b)
    \/ \E b \in Bridges : RunRaises(b)
    \/ \E b \in Bridges : SendCompletions(b)
    \/ \E b \in Bridges : Finally(b)
    \/ \E b \in Bridges : Cancel(b)

Spec == Init /\ [][Next]_vars

\* the bridge with the engine of the end-to-end scenario
NextE2E ==
    \/ \E b \in Bridges, c \in BridgeCallbacks : AddResponseCallback(b, c)
    \/ \E b \in Bridges, m \in Modes, rc \in BridgeCallbacks \cup {"None"} : Start(b, m, rc)
    \/ \E b \in Bridges : ScriptBegin(b)
    \/ \E b \in Bridges : ScriptEmit(b)
    \/ \E b \in Bridges : RunReturns(b)
    \/ \E b \in Bridges : RunRaises(b)
    \/ \E b \in Bridges : SendCompletions(b)
    \/ \E b \in Bridges : Finally(b)
    \/ \E b \in Bridges : Cancel(b)

\* create_streaming_aider_coder: when GitRepo(...) raised, the sink holds the
\* message written in the except clause before the first invocation
GitSetupFailed == "Git repository setup failed: e\n"

SinkConstructed(failed) ==
    /\ buffer = [s \in Sinks |-> IF failed THEN <<GitSetupFailed>> ELSE <<>>]
    /\ messages = [s \in Sinks |-> IF failed THEN <<OutputEvent(GitSetupFailed, 1)>> ELSE <<>>]
    /\ callbacks = [s \in Sinks |-> <<>>]
    /\ lock = [s \in Sinks |-> [owner |-> "none", count |-> 0]]
    /\ clock = IF failed THEN 1 ELSE 0
    /\ notified = <<>>

InitE2E ==
    /\ \E failed \in BOOLEAN : SinkConstructed(failed)
    /\ ThreadsIdle /\ StdoutIdle /\ IoOfBridge /\ TaskListCreated
    /\ \E flag \in BOOLEAN : BridgesCreated(flag)

SpecE2E == InitE2E /\ [][NextE2E]_vars

\* the bridge used for invocations in sequence, its response callbacks being
\* those passed to the streaming entry points (nobody calls
\* add_response_callback)
NextReuse ==
    \/ \E b \in Bridges, m \in Modes, rc \in BridgeCallbacks \cup {"None"} : Start(b, m, rc)
    \/ \E b \in Bridges : BeginCapture(b)
    \/ \E b \in Bridges : ScriptEmit(b)
    \/ \E b \in Bridges : RunReturns(b)
    \/ \E b \in Bridges : RunRaises(b)
    \/ \E b \in Bridges : SendCompletions(b)
    \/ \E b \in Bridges : Finally(b)
    \/ \E b \in Bridges : Cancel(b)

SpecReuse == Init /\ [][NextReuse]_vars

\* an I/O object as InputOutput(...) made it, not yet patched
InitIO ==
    /\ SinkIdle /\ ThreadsIdle /\ StdoutIdle /\ BridgesCreated(TRUE) /\ TaskListCreated
    /\ \E present \in HookSets :
          IoIdle([h \in Hooks |-> IF h \in present THEN "original" ELSE "absent"],
                 NoOriginals)

NextIO ==
    \/ \E b \in Bridges, flag \in BOOLEAN : IoPatch(b, flag)
    \/ \E b \in Bridges : IoRestore(b)
    \/ \E b \in Bridges : BridgeDel(b)
    \/ \E b \in Bridges, hook \in Hooks, text \in IoTexts \cup {Unprintable} :
            IoCall(b, hook, text)
    \/ \E b \in Bridges, text \in IoTexts \cup {NotAString} : IoStdout(b, text)
    \/ \E b \in Bridges : IoGuardEnter(b)
    \/ \E b \in Bridges : IoGuardExit(b)
    \/ \E b \in Bridges, c \in IoCallbacks : IoSubscribe(b, c)
    \/ \E b \in Bridges, text \in IoTexts \cup {NotAString} : IoSinkWrite(b, text)
    \/ \E b \in Bridges : IoSinkClear(b)

SpecIO == InitIO /\ [][NextIO]_vars

\* an unpatched I/O object with any set of the hooks, patched and restored
InitPatch ==
    /\ SinkIdle /\ ThreadsIdle /\ StdoutIdle /\ BridgesCreated(TRUE) /\ TaskListCreated
    /\ \E present \in SUBSET Hooks :
          IoIdle([h \in Hooks |-> IF h \in present THEN "original" ELSE "absent"],
                 NoOriginals)

NextPatch ==
    \/ \E b \in Bridges, flag \in BOOLEAN : IoPatch(b, flag)
    \/ \E b \in Bridges : IoRestore(b)
    \/ \E b \in Bridges : BridgeDel(b)

SpecPatch == InitPatch /\ [][NextPatch]_vars

\* two bridges made by create_streaming_aider_coder(suppress_terminal_output=True)
\* as CodingAgentTool.execute makes them, each with the same subscribers: none,
\* or one that prints
InitGuard ==
    /\ buffer = [s \in TwoBridges |-> <<>>]
    /\ messages = [s \in TwoBridges |-> <<>>]
    /\ \E cs \in {<<>>, <<"c3">>} : callbacks = [s \in TwoBridges |-> cs]
    /\ lock = [s \in TwoBridges |-> [owner |-> "none", count |-> 0]]
    /\ clock = 0
    /\ notified = <<>>
    /\ ThreadsIdle /\ StdoutIdle /\ IoOfBridge /\ TaskListCreated
    /\ suppress_terminal_output = [b \in TwoBridges |-> TRUE]
    /\ response_callbacks = [b \in TwoBridges |-> <<>>]
    /\ original_stdout_write = [b \in TwoBridges |-> "original"]
    /\ cpc = [b \in TwoBridges |-> "idle"]
    /\ wpc = [b \in TwoBridges |-> "idle"]
    /\ mode = [b \in TwoBridges |-> "capture"]
    /\ ninv = [b \in TwoBridges |-> 0]
    /\ emitted = [b \in TwoBridges |-> <<>>]
    /\ result = [b \in TwoBridges |-> NoResult]
    /\ returned = [b \in TwoBridges |-> NoResult]
    /\ dropped = [b \in TwoBridges |-> FALSE]

NextGuard ==
    \/ \E t \in Threads : RunClear(t)
    \/ \E t \in Threads : GuardSave(t)
    \/ \E t \in Threads : GuardFlag(t)
    \/ \E t \in Threads : GuardInstall(t)
    \/ \E t \in Threads : EngineWrites(t)
    \/ \E t \in Threads : EnginePrints(t)
    \/ \E t \in Threads, out \in Outcomes : EngineEnds(t, out)
    \/ \E t \in Threads : GuardUnflag(t)
    \/ \E t \in Threads : GuardRestore(t)
    \/ \E t \in Threads : RunResult(t)
    \/ \E t \in Threads : ProcessPrints(t)
    \/ \E t \in Threads : StdoutLock(t)
    \/ \E t \in Threads : StdoutCheck(t)
    \/ \E t \in Threads : StdoutFinally(t)
    \/ \E t \in Threads : WriteLock(t)
    \/ \E t \in Threads : WriteMessage(t)
    \/ \E t \in Threads : WriteDispatch(t)
    \/ \E t \in Threads : WriteUnlock(t)

SpecGuard == InitGuard /\ [][NextGuard]_vars

\* the steps of one thread; a thread that can take a step is scheduled
GuardStep(t) ==
    \/ RunClear(t) \/ GuardSave(t) \/ GuardFlag(t) \/ GuardInstall(t)
    \/ EngineWrites(t) \/ EnginePrints(t)
    \/ \E out \in Outcomes : EngineEnds(t, out)
    \/ GuardUnflag(t) \/ GuardRestore(t) \/ RunResult(t) \/ ProcessPrints(t)
    \/ StdoutLock(t) \/ StdoutCheck(t) \/ StdoutFinally(t)
    \/ WriteLock(t) \/ WriteMessage(t) \/ WriteDispatch(t) \/ WriteUnlock(t)

FairGuard == SpecGuard /\ \A t \in Threads : WF_vars(GuardStep(t))

\* one client calls the methods of a new TaskList, one call per step
InitTasks ==
    /\ SinkIdle /\ ThreadsIdle /\ StdoutIdle /\ BridgesCreated(TRUE) /\ IoOfBridge
    /\ TaskListCreated

NextTasks ==
    \/ \E uid \in Uids, name \in Names : add_task(Task(uid, name))
    \/ \E uid \in Uids : remove_task(uid)
    \/ \E uid \in Uids, name \in Names, description \in Descriptions, status \in TaskStatus :
            update_task(uid, name, description, status)
    \/ \E uid1 \in Uids, uid2 \in Uids : swap_tasks(uid1, uid2)
    \/ \E uid \in Uids, status \in TaskStatus : set_task_status(uid, status)

SpecTasks == InitTasks /\ [][NextTasks]_vars

\* one client registers subscribers that change the subscriber list, and writes
SubsCallbacks == {"c4", "c5", "c6"}

InitSubs ==
    /\ SinkIdle /\ ThreadsIdle /\ StdoutIdle /\ BridgesCreated(TRUE) /\ IoOfBridge
    /\ TaskListCreated

NextSubs ==
    \/ \E b \in Bridges, c \in SubsCallbacks : IoSubscribe(b, c)
    \/ \E b \in Bridges, text \in IoTexts : IoSinkWrite(b, text)

SpecSubs == InitSubs /\ [][NextSubs]_vars

(***************************************************************************)
(* Properties of the sink under concurrent clients (SpecSink).             *)
(***************************************************************************)
NonBlank(text) == text \notin {"", " ", "\n"}
LockFree(s) == lock[s].count = 0
AllIdle == \A t \in Threads : stack[t] = <<>>

\* the texts thread t issued whose write has reached the buffer
Written(t) == SubSeq(issued[t], 1, Len(issued[t]) - Len(Pending(t)))

RECURSIVE Interleaves(_, _)
Interleaves(buf, iss) ==
    IF buf = <<>>
    THEN \A t \in Threads : iss[t] = <<>>
    ELSE \E t \in Threads :
            /\ iss[t] # <<>>
            /\ Head(iss[t]) = Head(buf)
            /\ Interleaves(Tail(buf), [iss EXCEPT ![t] = Tail(@)])

\* C7, as stated: whenever a client can read the sink, the concatenation of the
\* contents of the output events equals get_output().
C7_EventsSpellOutput ==
    \A s \in Sinks : LockFree(s) => Cat(Contents(GetMessages(s))) = GetOutput(s)

\* C7, amended: whenever a client can read the sink, the concatenation of the
\* contents of the output events equals get_output() with the whitespace-only
\* writes left out.
C7_EventsSpellSolidOutput ==
    \A s \in Sinks :
        LockFree(s) =>
            Cat(Contents(GetMessages(s))) = Cat(SelectSeq(buffer[s], NonBlank))

C7_Witness ==
    \E s \in Sinks :
        /\ LockFree(s)
        /\ Len(messages[s]) >= 2
        /\ \E i \in DOMAIN buffer[s] : ~NonBlank(buffer[s][i])

\* C8: whenever no write holds the lock, the buffer holds every text written
\* since the last clear exactly once, in an interleaving of the threads' own
\* orders, and the events list the non-whitespace texts in the same order.
C8_Serializable ==
    \A s \in Sinks :
        LockFree(s) =>
            /\ Interleaves(buffer[s], [t \in Threads |-> Written(t)])
            /\ Contents(messages[s]) = SelectSeq(buffer[s], NonBlank)

C8_Witness ==
    /\ AllIdle
    /\ \A t \in Threads : \E i \in DOMAIN issued[t] : NonBlank(issued[t][i])
    /\ \E s \in Sinks : Len(messages[s]) >= 2 /\ Len(buffer[s]) >= 2

\* C9: the notifications of one write are never separated by a notification
\* made on another thread: no notification q lies between two notifications
\* of one event (same timestamp) the first of which was made on a thread other
\* than q's.
C9_DispatchNotInterleaved ==
    \A q \in DOMAIN notified :
        LET before == {notified[p].ts : p \in {x \in 1..(q - 1) :
                                                notified[x].thread # notified[q].thread}}
            after == {notified[r].ts : r \in (q + 1)..Len(notified)}
        IN before \cap after = {}

C9_Witness ==
    \E p, q, r, u \in DOMAIN notified :
        /\ p < q /\ r < u
        /\ notified[p].ts = notified[q].ts
        /\ notified[r].ts = notified[u].ts
        /\ notified[p].thread # notified[r].thread

\* C10, as stated: every subscriber is notified of the events in the order
\* of the event sequence.  Stated for the subscribers that do not write
\* themselves: the events such a subscriber is called with never go back.
C10_NotifiedInEventOrder ==
    \A p, q \in DOMAIN notified :
        (p < q /\ notified[p].cb = notified[q].cb /\ Behaviour(notified[p].cb) # "write")
            => notified[p].ts <= notified[q].ts

\* C23, as stated: the subscribers are a set: a registered callback is called
\* exactly once for a write, also when add_callback was called twice with it:
\* no two notifications have the same callback and the same event.
C23_OneCallPerWrite ==
    \A p, q \in DOMAIN notified :
        (notified[p].cb = notified[q].cb /\ notified[p].ts = notified[q].ts) => p = q

(***************************************************************************)
(* Properties of the I/O object, the guard and the sink under one client   *)
(* (SpecIO).                                                               *)
(***************************************************************************)
Before == outcome.before[1]
Did(op) == outcome.op = op
Solid(text) == IsStr(text) /\ NonBlank(text)

\* the subscribers the outermost write of the last call notified, in order
Outermost == SelectSeq(notified, LAMBDA n : n.depth = 1)
NotifiedOutermost == [i \in DOMAIN Outermost |-> Outermost[i].cb]

\* C11, as stated: a write made by a subscriber during its notification is
\* rejected or nested at most one level below the write it answers: no
\* notification is made by a write nested deeper than two.
C11_NestingCapped ==
    \A p \in DOMAIN notified : notified[p].depth <= 2

\* C12: a client write of a non-whitespace text returns normally whatever the
\* subscribers do, has notified every registered subscriber once, in list
\* order, and leaves the subscriber list as it was.
C12_RaisingSubscriberIsolated ==
    \A b \in Bridges :
        (Did("write") /\ Solid(outcome.text)) =>
            /\ outcome.exc = "none"
            /\ NotifiedOutermost = Before.callbacks
            /\ callbacks[b] = Before.callbacks

C12_Witness ==
    \E b \in Bridges :
        /\ Did("write") /\ Solid(outcome.text)
        /\ Len(callbacks[b]) = 2
        /\ Behaviour(callbacks[b][1]) = "raise"
        /\ Behaviour(callbacks[b][2]) # "raise"
        /\ Len(NotifiedOutermost) = 2

C17_ClearKeepsSubscribers ==
    \A b \in Bridges :
        /\ Did("clear") =>
              /\ GetOutput(b) = ""
              /\ GetMessages(b) = <<>>
              /\ callbacks[b] = Before.callbacks
              /\ Before.buffer = <<>> => (buffer[b] = Before.buffer /\ messages[b] = Before.messages)
        /\ (Did("write") /\ Solid(outcome.text) /\ Before.buffer = <<>>)
              => \A i \in DOMAIN Before.callbacks :
                    \E p \in DOMAIN notified : notified[p].cb = Before.callbacks[i]

C17_Witness ==
    \E b \in Bridges :
        /\ Did("write") /\ Solid(outcome.text)
        /\ Before.buffer = <<>> /\ Before.callbacks # <<>>
        /\ messages[b] # <<>> /\ messages[b][1].timestamp > 1   \* events were cleared
        /\ notified # <<>>

\* C20: no low-level write is executing between two calls, and then
\* _stdout_patching_active is false, also after a low-level write whose sink
\* write raised; a low-level write made while the flag is set (by a subscriber
\* that prints during the dispatch of a low-level write) is dropped: a
\* low-level write of a non-whitespace text adds exactly its own event when no
\* subscriber writes to the sink directly, and never raises.
C20_ReentrancyFlag ==
    /\ ~stdout_patching_active
    /\ \A b \in Bridges :
        (Did("stdout") /\ Before.sys_stdout_write = b) =>
            /\ outcome.exc = "none"
            /\ (\A i \in DOMAIN callbacks[b] : Behaviour(callbacks[b][i]) # "write")
                  => Contents(messages[b]) =
                        Contents(Before.messages)
                            \o (IF Solid(outcome.text) THEN <<outcome.text>> ELSE <<>>)

C20_Witness ==
    \E b \in Bridges :
        /\ Did("stdout") /\ Before.sys_stdout_write = b
        /\ outcome.text = NotAString
        /\ \E i \in DOMAIN callbacks[b] : Behaviour(callbacks[b][i]) = "print"

C20_WitnessDropped ==
    \E b \in Bridges :
        /\ Did("stdout") /\ Before.sys_stdout_write = b /\ Solid(outcome.text)
        /\ \E p \in DOMAIN notified : Behaviour(notified[p].cb) = "print"

\* the events the last call added to the sink of b
NewEvents(b) == SubSeq(messages[b], Len(Before.messages) + 1, Len(messages[b]))

\* C22: write(text) of a str returns normally, puts text in the buffer right
\* after what was there and returns its length; for a whitespace-only text it
\* adds no event and notifies nobody; otherwise the first event it adds is the
\* output event of text, the only one with that content, and the subscribers
\* registered when it was called are notified, in list order.
C22_WriteContract ==
    \A b \in Bridges :
        (Did("write") /\ IsStr(outcome.text)) =>
            /\ outcome.exc = "none"
            /\ outcome.ret = Len(outcome.text)
            /\ Len(buffer[b]) > Len(Before.buffer)
            /\ SubSeq(buffer[b], 1, Len(Before.buffer) + 1)
                  = Append(Before.buffer, outcome.text)
            /\ SubSeq(messages[b], 1, Len(Before.messages)) = Before.messages
            /\ IF NonBlank(outcome.text)
               THEN /\ NewEvents(b) # <<>>
                    /\ NewEvents(b)[1].type = "output"
                    /\ NewEvents(b)[1].content = outcome.text
                    /\ Cardinality({i \in DOMAIN NewEvents(b) :
                                       NewEvents(b)[i].content = outcome.text}) = 1
                    /\ NotifiedOutermost = Before.callbacks
               ELSE /\ NewEvents(b) = <<>>
                    /\ notified = <<>>

C22_Witness ==
    \E b \in Bridges :
        /\ Did("write") /\ Solid(outcome.text)
        /\ Before.buffer # <<>> /\ Before.messages # <<>>
        /\ Len(Before.callbacks) = 2
        /\ Len(NewEvents(b)) >= 2

\* C25: a call of a patched hook raises only what the original handler it
\* forwards to raises: an exception of the formatting or of the sink write
\* does not leave the wrapper.  When the hooks were patched with
\* suppress_terminal_output False the original handler is called exactly
\* once, with the message the wrapper was called with, also when the capture
\* raised; with suppress_terminal_output True it is not called and the call
\* returns normally.
C25_HookNeverBreaksEngine ==
    \A b \in Bridges :
        (Did("hook") /\ Before.hooks[outcome.arg] = "patched") =>
            IF suppress_terminal_output[b]
            THEN outcome.forwarded = <<>> /\ outcome.exc = "none"
            ELSE /\ outcome.forwarded = <<[hook |-> outcome.arg, message |-> outcome.text]>>
                 /\ outcome.exc # "none" => ~Printable(outcome.text)

\* the formatting raised in a wrapper that forwards
C25_Witness ==
    \E b \in Bridges :
        /\ Did("hook") /\ Before.hooks[outcome.arg] = "patched"
        /\ ~suppress_terminal_output[b]
        /\ ~Printable(outcome.text)
        /\ outcome.forwarded # <<>>
        /\ buffer[b] = Before.buffer

\* a subscriber raised during the sink write of a wrapper that does not forward
C25_WitnessSuppressed ==
    \E b \in Bridges :
        /\ Did("hook") /\ Before.hooks[outcome.arg] = "patched"
        /\ suppress_terminal_output[b]
        /\ \E p \in DOMAIN notified : Behaviour(notified[p].cb) = "raise"

(***************************************************************************)
(* Properties of patching and restoring an I/O object that has any subset  *)
(* of the hooks (SpecPatch).                                               *)
(***************************************************************************)
\* C24: monkey_patch_io_for_capture does not raise, replaces the hooks the
\* object has and leaves the hooks it lacks absent, recording None for them;
\* restore_io_methods leaves absent hooks absent and changes only hooks whose
\* recorded original is not None.
C24_PatchesExactlyPresentHooks ==
    \A b \in Bridges :
        /\ Did("patch") =>
              /\ outcome.exc = "none"
              /\ \A h \in Hooks :
                    /\ io_hooks[b][h] = IF Before.hooks[h] = "absent" THEN "absent" ELSE "patched"
                    /\ io_originals[b].of[h] = "None" <=> Before.hooks[h] = "absent"
        /\ (Did("restore") \/ Did("del")) =>
              /\ outcome.exc = "none"
              /\ \A h \in Hooks :
                    /\ Before.hooks[h] = "absent" => io_hooks[b][h] = "absent"
                    /\ io_hooks[b][h] # Before.hooks[h]
                          => (Before.originals.set /\ Before.originals.of[h] # "None")

\* an object that has ai_output only was patched and then restored
C24_Witness ==
    \E b \in Bridges :
        /\ Did("restore") /\ Before.originals.set
        /\ Before.hooks["ai_output"] = "patched" /\ io_hooks[b]["ai_output"] = "original"
        /\ \A h \in Hooks \ {"ai_output"} : io_hooks[b][h] = "absent"

(***************************************************************************)
(* Properties of two bridges run by two threads (SpecGuard).               *)
(***************************************************************************)
Running(b) == wpc[b] = "run"
InSink(s) == {buffer[s][i] : i \in DOMAIN buffer[s]}

\* C21, as stated: _stdout_patch_mode_active and _stdout_patching_active
\* change only in steps taken while _stdout_patching_lock is held.
C21_FlagsChangeUnderLock ==
    [][(\/ stdout_patch_mode_active' # stdout_patch_mode_active
        \/ stdout_patching_active' # stdout_patching_active)
            => patching_lock.count > 0]_vars

\* C27, as stated: while the engine call of an invocation is running, the
\* guard of its bridge is in place (sys.stdout.write is its wrapper and
\* _stdout_patch_mode_active is true), and before and after it is not; an
\* invocation that is over has returned one result, with success true exactly
\* when the engine returned.
C27_InvocationLifecycle ==
    \A b \in TwoBridges :
        /\ Running(b) => (sys_stdout_write = b /\ stdout_patch_mode_active)
        /\ (wpc[b] = "idle" \/ WorkerDone(b)) => sys_stdout_write # b
        /\ WorkerDone(b) <=> result[b].kind = "dict"
        /\ WorkerDone(b) => (result[b].success <=> wpc[b] = "returned")

\* C28, as stated: _stdout_patch_mode_active is true as long as the engine
\* call of at least one bridge is running under its guard, and once both
\* invocations are over sys.stdout.write is the handler that was installed
\* before either guard was entered.
C28_OverlappingGuards ==
    /\ (\E b \in TwoBridges : Running(b)) => stdout_patch_mode_active
    /\ (\A b \in TwoBridges : WorkerDone(b)) => sys_stdout_write = "original"

\* C29, as stated: what the engine of one bridge wrote to sys.stdout is never
\* in the sink of the other bridge, and once its write has returned it is in
\* the sink of its own.
C29_BridgesIsolated ==
    \A b, c \in TwoBridges :
        \A i \in DOMAIN emitted[b] :
            emitted[b][i].via = "stdout" =>
                /\ b # c => emitted[b][i].text \notin InSink(c)
                /\ WorkerDone(b) => emitted[b][i].text \in InSink(b)

\* C30, as stated: a low-level write (holding _stdout_patching_lock, about to
\* take a sink's lock) and a sink write whose subscriber prints (holding the
\* sink's lock, about to take _stdout_patching_lock) never wait for each
\* other.
C30_NoLockCycle ==
    \A t, u \in Threads :
        ~ /\ t # u
          /\ At(t, "lock")
          /\ lock[Top(t).sink].count > 0 /\ lock[Top(t).sink].owner = u
          /\ patching_lock.count > 0 /\ patching_lock.owner = t
          /\ At(u, "s_lock")

\* the low-level write on top of the stack of t was issued inside another
\* low-level write of t
Nested(t) == \E k \in 1..(Len(stack[t]) - 1) : stack[t][k].pc = "s_fin"

\* t is at `with _stdout_patching_lock` while another thread is inside its own
\* low-level write
WaitsForOther(t) ==
    /\ At(t, "s_lock")
    /\ patching_lock.count > 0 /\ patching_lock.owner # t

Occurrences(seq, x) == Cardinality({i \in DOMAIN seq : seq[i] = x})

\* a low-level write is discarded only if it is nested in one of its own thread
C31_OnlyNestedDropped ==
    \A t \in Threads :
        (At(t, "s_check") /\ stdout_patching_active) => Nested(t)

\* a low-level write of a solid text that is not nested and has come back from
\* the sink left the text in the sink's buffer once
C31_RecordedOnce ==
    \A t \in Threads :
        (At(t, "s_fin") /\ ~Nested(t) /\ Top(t).text # "" /\ Strip(Top(t).text))
            => Occurrences(buffer[Top(t).sink], Top(t).text) = 1

\* C31, as stated: the re-entrancy flag drops only writes nested in a
\* low-level write of the same thread; a write of thread B that finds thread A
\* inside its own low-level write is not discarded: B gets the lock after
\* waiting for it, and its text is then in the sink exactly once.
C31_OtherThreadWaitsAndWrites ==
    /\ [](C31_OnlyNestedDropped /\ C31_RecordedOnce)
    /\ \A t \in Threads : (WaitsForOther(t) /\ ~Nested(t)) ~> At(t, "s_check")

\* C31, short of the lock cycle of C30: the waiting thread gets the lock in
\* every behaviour in which the two locks are not held crosswise
C31_WaitsUnlessLockCycle ==
    \A t \in Threads :
        (WaitsForOther(t) /\ ~Nested(t)) ~> (At(t, "s_check") \/ ~C30_NoLockCycle)

(***************************************************************************)
(* Properties of the bridge (Spec).                                        *)
(***************************************************************************)
Completions(c) ==
    Cardinality({p \in DOMAIN notified :
                    notified[p].cb = c /\ notified[p].kind = "completion"})

\* every response callback was passed to an invocation as response_callback
OnlyPassedCallbacks(b) == Len(response_callbacks[b]) <= ninv[b]

\* C1, as stated: when a streaming invocation has sent its completion events,
\* each callback registered for it has received exactly one.
C1_OneCompletionEach ==
    \A b \in Bridges :
        (cpc[b] = "finally" /\ result[b].kind = "dict" /\ OnlyPassedCallbacks(b))
            => \A i \in DOMAIN response_callbacks[b] :
                    Completions(response_callbacks[b][i]) = 1

\* C2: in the history of an invocation no subscriber is called with an output
\* event after it was called with 'completion'.
C2_CompletionIsLast ==
    \A p, q \in DOMAIN notified :
        (p < q /\ notified[p].cb = notified[q].cb /\ notified[p].kind = "completion")
            => notified[q].kind = "completion"

C2_Witness ==
    \E p, q \in DOMAIN notified :
        /\ p < q
        /\ notified[p].cb = notified[q].cb
        /\ notified[p].kind = "assistant_response"
        /\ notified[q].kind = "completion"

\* the texts under which a fragment can appear in an event
Renderings(text) == {Format(h, text) : h \in Hooks}
Recorded(b, text) == {j \in DOMAIN messages[b] : messages[b][j].content \in Renderings(text)}
Guarded(b) == wpc[b] \in {"run", "returned", "raised"}
ReachedStdout(b, e) == e.via = "stdout" \/ (e.via # "stdout" /\ ~suppress_terminal_output[b])

\* C3, as stated: every non-whitespace fragment the engine emitted in the
\* invocation, by whatever path, is in the sink's event sequence.
C3_EveryFragmentRecorded ==
    \A b \in Bridges :
        Guarded(b) =>
            \A i \in DOMAIN emitted[b] :
                NonBlank(emitted[b][i].text) => Recorded(b, emitted[b][i].text) # {}

\* C4, as stated: every non-whitespace fragment that went through the patched
\* sys.stdout.write once, outside any callback, is in the event sequence
\* exactly once.
C4_LowLevelRecordedOnce ==
    \A b \in Bridges :
        Guarded(b) =>
            \A i \in DOMAIN emitted[b] :
                (NonBlank(emitted[b][i].text) /\ ReachedStdout(b, emitted[b][i]))
                    => Cardinality(Recorded(b, emitted[b][i].text)) = 1

\* C5: once run_with_capture has returned, after a return and after an
\* exception of the engine, sys.stdout.write is the handler the guard found
\* and _stdout_patch_mode_active is false.
C5_GuardReleased ==
    \A b \in Bridges :
        WorkerDone(b) =>
            /\ sys_stdout_write = original_stdout_write[b]
            /\ ~stdout_patch_mode_active

C5_Witness ==
    \E b \in Bridges : wpc[b] = "raised" /\ emitted[b] # <<>> /\ messages[b] # <<>>

\* C6: when the engine raised, run_with_capture returned a dict with
\* success False, the exception's message and what the sink holds, and the
\* caller of a streaming entry point gets that dict (the only exception a
\* caller sees is its own cancellation).
C6_EngineFailureIsAResult ==
    \A b \in Bridges :
        wpc[b] = "raised" =>
            /\ result[b].kind = "dict"
            /\ ~result[b].success
            /\ \E out \in Outcomes : out.raised /\ result[b].error = out.value
            /\ result[b].captured_output = GetOutput(b)
            /\ result[b].messages = GetMessages(b)
            /\ returned[b] \in {NoResult, result[b],
                                CancelledError}

C6_Witness ==
    \E b \in Bridges :
        /\ wpc[b] = "raised"
        /\ mode[b] # "capture"
        /\ returned[b] = result[b]
        /\ result[b].captured_output # ""
        /\ Len(result[b].messages) >= 1

Cancelled(b) == returned[b] = CancelledError
CancelStep(b) == cpc[b] = "waiting" /\ cpc'[b] = "idle" /\ Cancelled(b)'

\* C15: the step that cancels the task awaiting run_with_streaming_async
\* leaves the worker where it is, and the sink and the guard as they are; a
\* worker whose caller was cancelled can still take its next step, what it
\* writes to sys.stdout is recorded in the sink, and when it is done the guard
\* is released and run_with_capture has returned its dict.
C15_CancelLeavesWorkerRunning ==
    /\ [][\A b \in Bridges :
            CancelStep(b) =>
                /\ wpc'[b] = wpc[b]
                /\ <<buffer, messages, emitted, result>>' = <<buffer, messages, emitted, result>>
                /\ stdoutVars' = stdoutVars]_vars
    /\ [](\A b \in Bridges :
            Cancelled(b) =>
                /\ wpc[b] # "idle"
                /\ wpc[b] = "called" => ENABLED BeginCapture(b)
                /\ wpc[b] = "run" => ENABLED RunReturns(b)
                /\ Guarded(b) =>
                      \A i \in DOMAIN emitted[b] :
                          (emitted[b][i].via = "stdout" /\ NonBlank(emitted[b][i].text))
                              => Recorded(b, emitted[b][i].text) # {}
                /\ WorkerDone(b) =>
                      /\ result[b].kind = "dict"
                      /\ sys_stdout_write = original_stdout_write[b]
                      /\ ~stdout_patch_mode_active)

\* cancelled with the worker running; it then wrote to sys.stdout (no subscriber
\* was left to notify) and returned
C15_Witness ==
    \E b \in Bridges :
        /\ Cancelled(b)
        /\ wpc[b] = "returned"
        /\ response_callbacks[b] # <<>>
        /\ notified = <<>>
        /\ \E i \in DOMAIN emitted[b] : emitted[b][i].via = "stdout" /\ NonBlank(emitted[b][i].text)
        /\ messages[b] # <<>>

\* what subscriber c was called with, in order
KindsTo(c) ==
    LET mine == SelectSeq(notified, LAMBDA n : n.cb = c)
    IN [i \in DOMAIN mine |-> mine[i].kind]
ContentsTo(c) ==
    LET mine == SelectSeq(notified, LAMBDA n : n.cb = c)
    IN [i \in DOMAIN mine |-> mine[i].content]

ScriptDone(b) == wpc[b] = "returned" /\ Len(emitted[b]) = Len(Script)
\* the streaming entry point has just sent the completion events
Delivered(b) == mode[b] # "capture" /\ cpc[b] = "finally"
OnceEach(b) ==
    \A i, j \in DOMAIN response_callbacks[b] :
        response_callbacks[b][i] = response_callbacks[b][j] => i = j

EndToEnd(b, outputKind) ==
    ScriptDone(b) =>
        /\ GetOutput(b) = "abc"
        /\ Len(GetMessages(b)) = 3
        /\ \A i \in DOMAIN messages[b] : messages[b][i].type = "output"
        /\ result[b].kind = "dict" /\ result[b].success
        /\ result[b].result = "R"
        /\ result[b].captured_output = "abc"
        /\ (Delivered(b) /\ OnceEach(b)) =>
              \A i \in DOMAIN response_callbacks[b] :
                  /\ KindsTo(response_callbacks[b][i])
                        = <<outputKind, outputKind, outputKind, "completion">>
                  /\ SubSeq(ContentsTo(response_callbacks[b][i]), 1, 3) = Script

ThisRun(b) == [i \in DOMAIN emitted[b] |-> emitted[b][i].text]

\* C26: the result of an invocation holds what the engine wrote in that
\* invocation and nothing else: captured_output is the concatenation of these
\* texts and messages are their events, whatever the sink held when the
\* invocation began (from the construction or from the invocation before).
C26_ResultHoldsOnlyThisRun ==
    \A b \in Bridges :
        result[b].kind = "dict" =>
            /\ result[b].captured_output = Cat(ThisRun(b))
            /\ Contents(result[b].messages) = ThisRun(b)

\* the second invocation found the sink filled by the first
C26_Witness ==
    \E b \in Bridges :
        /\ result[b].kind = "dict" /\ ninv[b] = 2
        /\ dropped[b]
        /\ Len(emitted[b]) = Len(Script)
        /\ result[b].captured_output = "abc"

\* the first invocation found the message of the construction
C26_WitnessConstruction ==
    \E b \in Bridges :
        /\ result[b].kind = "dict" /\ ninv[b] = 1
        /\ dropped[b]
        /\ result[b].captured_output = "a"

\* C18: whenever no streaming entry point is running on the bridge, the sink
\* has no subscriber (the bridge has removed every callback it added), so a
\* later write notifies none of them.
C18_NoCallbackLeftRegistered ==
    \A b \in Bridges : cpc[b] = "idle" => callbacks[b] = <<>>

C18_Witness ==
    \E b \in Bridges :
        /\ cpc[b] = "idle" /\ mode[b] # "capture" /\ ninv[b] = 2
        /\ Len(response_callbacks[b]) = 2
        /\ returned[b].kind = "dict" /\ ~returned[b].success
        /\ notified # <<>>

\* C19, as stated: under the guard a hook does not write to the sink: a
\* fragment emitted through a hook is recorded only by the low-level write it
\* reaches, once when the hook forwards to the original handler and not at all
\* when it does not.
C19_HooksSilentUnderGuard ==
    \A b \in Bridges :
        Guarded(b) =>
            \A i \in DOMAIN emitted[b] :
                (NonBlank(emitted[b][i].text) /\ emitted[b][i].via # "stdout")
                    => Cardinality(Recorded(b, emitted[b][i].text))
                          = IF suppress_terminal_output[b] THEN 0 ELSE 1

(***************************************************************************)
(* TaskList: one task in progress.                                         *)
(***************************************************************************)
InProgressTasks(ts) == {i \in DOMAIN ts : ts[i].status = "in_progress"}

Statuses(ts) == [i \in DOMAIN ts |-> ts[i].status]

\* set_task_status(uid, IN_PROGRESS) was called while a task with another uid
\* was in progress
RefusedCase ==
    /\ task_call.op = "set_task_status"
    /\ task_call.status = "in_progress"
    /\ \E i \in InProgressTasks(task_call.before) : task_call.before[i].uid # task_call.uid

\* C35: whatever add_task, set_task_status, update_task, remove_task and
\* swap_tasks calls were made, at most one task of the list has status
\* IN_PROGRESS; and a set_task_status(uid, IN_PROGRESS) made while a different
\* task was IN_PROGRESS raised and changed no status.
C35_OneTaskInProgress ==
    /\ Cardinality(InProgressTasks(tasks)) <= 1
    /\ RefusedCase => /\ task_call.raised = "ValueError"
                      /\ Statuses(tasks) = Statuses(task_call.before)

\* C35, its second half alone: when exactly one task was in progress before
\* the call, the call raised and left the list and its file as they were
C35_RefusalWhenOneInProgress ==
    (RefusedCase /\ Cardinality(InProgressTasks(task_call.before)) = 1)
        => /\ task_call.raised = "ValueError"
           /\ tasks = task_call.before
           /\ task_file = tasks

(***************************************************************************)
(* Subscribers that change the subscriber list (SpecSubs).                 *)
(***************************************************************************)
Registered(list) == {list[i] : i \in DOMAIN list}
NoDuplicates(list) == Cardinality(Registered(list)) = Len(list)

\* C34, as stated: after a write of a non-whitespace text, every callback that
\* was registered (once) when the write started has been notified of it
\* exactly once, whatever the callbacks did to the subscriber list during
\* their notification.
C34_ListChangeDuringDispatch ==
    \A b \in Bridges :
        (Did("write") /\ Solid(outcome.text) /\ NoDuplicates(Before.callbacks)) =>
            \A c \in Registered(Before.callbacks) :
                Occurrences(NotifiedOutermost, c) = 1

\* C34, for subscribers that only add: nobody registered at the start misses
\* the notification or gets it twice
C34_AddingOnly ==
    \A b \in Bridges :
        (/\ Did("write") /\ Solid(outcome.text) /\ NoDuplicates(Before.callbacks)
         /\ \A c \in Registered(Before.callbacks) : Behaviour(c) # "remove") =>
            \A c \in Registered(Before.callbacks) :
                Occurrences(NotifiedOutermost, c) = 1

(***************************************************************************)
(* A bridge used again, and a cancelled caller.                            *)
(***************************************************************************)
\* every invocation so far was a streaming one that passed a callback: the
\* k-th invocation passed response_callbacks[b][k]
EachPassedOne(b) == mode[b] # "capture" /\ Len(response_callbacks[b]) = ninv[b]
PassedNow(b) == response_callbacks[b][ninv[b]]

\* C32, as stated: in an invocation of a bridge every notification, of output
\* and of completion, goes to the callback that was passed to that
\* invocation; a callback passed to an earlier invocation only gets none.
C32_OnlyThisInvocationsCallback ==
    \A b \in Bridges :
        EachPassedOne(b) =>
            \A p \in DOMAIN notified : notified[p].cb = PassedNow(b)

\* the engine's last emission, made in the step
LastEmitted(b) == emitted[b][Len(emitted[b])]
Emitting(b) == Len(emitted'[b]) = Len(emitted[b]) + 1

\* C33: the step that cancels the task awaiting run_with_streaming_async
\* while the worker is running leaves no callback of the bridge in the sink
\* and notifies nobody; as long as the invocation stays cancelled the sink has
\* no subscriber and no completion event was sent; and a text the worker then
\* writes to sys.stdout is appended to the sink's buffer and events and
\* notified to nobody.
C33_CancelledInvocationIsSilent ==
    /\ [][\A b \in Bridges :
            (CancelStep(b) /\ ~WorkerDone(b)) =>
                /\ callbacks'[b] = <<>>
                /\ notified' = notified]_vars
    /\ [](\A b \in Bridges :
            Cancelled(b) =>
                /\ callbacks[b] = <<>>
                /\ \A p \in DOMAIN notified : notified[p].kind # "completion")
    /\ [][\A b \in Bridges :
            (Cancelled(b) /\ Cancelled(b)' /\ Emitting(b)) =>
                /\ notified' = notified
                /\ (LastEmitted(b)'.via = "stdout" /\ NonBlank(LastEmitted(b)'.text)) =>
                      /\ buffer'[b] = Append(buffer[b], LastEmitted(b)'.text)
                      /\ Len(messages'[b]) = Len(messages[b]) + 1
                      /\ messages'[b][Len(messages'[b])].content = LastEmitted(b)'.text]_vars

\* cancelled with two callbacks registered, the worker still running: it has
\* since written to sys.stdout, and nobody was notified
C33_Witness ==
    \E b \in Bridges :
        /\ Cancelled(b)
        /\ wpc[b] = "run"
        /\ Len(response_callbacks[b]) = 2
        /\ callbacks[b] = <<>>
        /\ notified = <<>>
        /\ emitted[b] # <<>>
        /\ LastEmitted(b).via = "stdout" /\ NonBlank(LastEmitted(b).text)
        /\ buffer[b] # <<>> /\ messages[b] # <<>>

====
